---- MODULE Spec2Model ----
(***************************************************************************)
(* Model of the word-to-pdf-converter backend: the POST /api/convert       *)
(* route (uploadMiddleware -> validateFile -> convertWordToPdf), the       *)
(* download callback and the deferred per-job cleanup.                     *)
(*                                                                         *)
(* Text is a sequence of one-character strings; a path is a record         *)
(* [dir, name]; a file on disk is a record of one of the two directories.  *)
(* Calls into libraries (multer, mammoth, pdf-lib, fs, express) are        *)
(* modelled by their documented outcomes, drawn nondeterministically.      *)
(***************************************************************************)
EXTENDS Integers, Sequences, FiniteSets, TLC

\* ------------------------------------------------------------------ bounds
MaxTicks == 2

\* ------------------------------------------------------- program constants
DefaultMaxFileSize == 10 * 1024 * 1024
CleanupDelayMs == 5000
\* cleanupOldFiles(directoryPath, maxAgeHours = 24)
MaxAgeMs == 24 * 60 * 60 * 1000

\* ------------------------------------------------------------ text helpers
UpperChars == <<"A","B","C","D","E","F","G","H","I","J","K","L","M",
                "N","O","P","Q","R","S","T","U","V","W","X","Y","Z">>
LowerChars == <<"a","b","c","d","e","f","g","h","i","j","k","l","m",
                "n","o","p","q","r","s","t","u","v","w","x","y","z">>
DigitChars == <<"0","1","2","3","4","5","6","7","8","9">>

Range(s) == { s[i] : i \in DOMAIN s }

\* String.prototype.toLowerCase, one character
LowerChar(c) ==
  IF \E i \in DOMAIN UpperChars : UpperChars[i] = c
    THEN LowerChars[CHOOSE i \in DOMAIN UpperChars : UpperChars[i] = c]
    ELSE c

toLowerCase(s) == [i \in DOMAIN s |-> LowerChar(s[i])]

\* Number -> decimal string, as template literals and '+' format it
RECURSIVE NumberToString(_)
NumberToString(n) ==
  IF n < 10 THEN <<DigitChars[n + 1]>>
            ELSE NumberToString(n \div 10) \o <<DigitChars[(n % 10) + 1]>>

\* Index of the last '.' of s, 0 when there is none
LastDot(s) ==
  IF \E i \in DOMAIN s : s[i] = "."
    THEN CHOOSE i \in DOMAIN s : s[i] = "." /\ \A j \in DOMAIN s : j > i => s[j] # "."
    ELSE 0

\* path.extname on a name without directory separators
extname(p) ==
  LET i == LastDot(p) IN
    IF i = 0 \/ i = 1 \/ p = <<".", ".">> THEN <<>> ELSE SubSeq(p, i, Len(p))

\* path.basename(p, ext) on a name without directory separators
basename(p, ext) ==
  IF /\ Len(ext) > 0
     /\ Len(p) > Len(ext)
     /\ SubSeq(p, Len(p) - Len(ext) + 1, Len(p)) = ext
    THEN SubSeq(p, 1, Len(p) - Len(ext))
    ELSE p

\* the character class [a-zA-Z0-9\-_]
IsNameChar(c) ==
  c \in Range(UpperChars) \cup Range(LowerChars) \cup Range(DigitChars) \cup {"-", "_"}

\* baseName.replace(/[^a-zA-Z0-9\-_]/g, '_')
CleanBaseName(s) == [i \in DOMAIN s |-> IF IsNameChar(s[i]) THEN s[i] ELSE "_"]

\* String.prototype.trim
IsSpace(c) == c \in {" ", "\n", "\t", "\r"}

RECURSIVE TrimLeft(_)
TrimLeft(s) == IF Len(s) > 0 /\ IsSpace(s[1]) THEN TrimLeft(Tail(s)) ELSE s

RECURSIVE TrimRight(_)
TrimRight(s) ==
  IF Len(s) > 0 /\ IsSpace(s[Len(s)]) THEN TrimRight(SubSeq(s, 1, Len(s) - 1)) ELSE s

trim(s) == TrimRight(TrimLeft(s))

\* parseInt on an environment value: <<>> stands for an unset variable
RECURSIVE ParseDigits(_, _)
ParseDigits(s, acc) ==
  IF Len(s) > 0 /\ s[1] \in Range(DigitChars)
    THEN ParseDigits(Tail(s),
           10 * acc + (CHOOSE d \in 0..9 : DigitChars[d + 1] = s[1]))
    ELSE acc

NaN == -1

parseInt(s) ==
  IF Len(s) > 0 /\ s[1] \in Range(DigitChars) THEN ParseDigits(s, 0) ELSE NaN

\* parseInt(process.env.MAX_FILE_SIZE) || 10 * 1024 * 1024
MaxSizeOf(env) ==
  LET n == parseInt(env) IN IF n = NaN \/ n = 0 THEN DefaultMaxFileSize ELSE n

\* Math.round(maxSize / (1024 * 1024))
RoundMB(maxSize) == (2 * maxSize + 1024 * 1024) \div (2 * 1024 * 1024)


\* ------------------------------------------------------------------ inputs
Str_a_docx  == <<"a", ".", "d", "o", "c", "x">>
Str_my_DOCX == <<"m", "y", " ", "f", ".", "D", "O", "C", "X">>
Str_a_doc   == <<"a", ".", "d", "o", "c">>
Str_a_txt   == <<"a", ".", "t", "x", "t">>
Str_dotdocx == <<".", "d", "o", "c", "x">>

OriginalNames == {Str_a_docx, Str_my_DOCX, Str_a_doc, Str_a_txt, Str_dotdocx}

MimeDoc  == "application/msword"
MimeDocx == "application/vnd.openxmlformats-officedocument.wordprocessingml.document"
MimeTypes == {MimeDoc, MimeDocx, "text/plain"}

\* an uploaded body: its byte length and its leading bytes
FileBodies ==
  { [size |-> 0,        bytes |-> <<>>],
    [size |-> 3,        bytes |-> <<80, 75, 3>>],
    [size |-> 4,        bytes |-> <<80, 75, 3, 4>>],
    [size |-> 1024,     bytes |-> <<80, 75, 3, 4, 20>>],
    [size |-> 1024,     bytes |-> <<80, 75, 5, 6, 0>>],
    [size |-> 1024,     bytes |-> <<80, 75, 7, 8, 0>>],
    [size |-> 1024,     bytes |-> <<255, 255, 255, 255, 0>>],
    [size |-> 1024,     bytes |-> <<208, 207, 17, 224, 161>>],
    [size |-> 1025,     bytes |-> <<80, 75, 3, 4, 20>>],
    [size |-> 10485761, bytes |-> <<80, 75, 3, 4, 20>>] }

\* multipart requests multer can be handed
Requests ==
  [kind : {"file"}, originalname : OriginalNames, mimetype : MimeTypes, body : FileBodies]
  \cup
  [kind : {"nofile", "LIMIT_FILE_COUNT", "LIMIT_UNEXPECTED_FILE", "LIMIT_PART_COUNT"},
   originalname : {<<>>}, mimetype : {""}, body : {[size |-> 0, bytes |-> <<>>]}]

\* Math.round(Math.random() * 1E9)
RandomSuffixes == {0, 1000000000}

\* process.env of a deployment (<<>> / "" : variable not set)
Envs ==
  { [NODE_ENV |-> "development", MAX_FILE_SIZE |-> <<>>],
    [NODE_ENV |-> "production",  MAX_FILE_SIZE |-> <<"1", "0", "2", "4">>],
    [NODE_ENV |-> "",            MAX_FILE_SIZE |-> <<"0">>] }

\* texts mammoth.extractRawText can return in result.value
ExtractedTexts ==
  { <<>>, <<" ", "\n">>, <<"h", "i", "\n", "b">> }

\* byte lengths pdfDoc.save() can return
PdfLengths == {583, 1187}

\* the reason codes of README.md and of the middleware
ReasonCodes ==
  { "UPLOAD_ERROR", "VALIDATION_ERROR", "CONVERSION_ERROR", "FILE_TOO_LARGE",
    "INVALID_FILE_TYPE", "INVALID_MIME_TYPE", "NO_FILE", "FILE_NOT_FOUND", "EMPTY_FILE" }

\* ------------------------------------------------------------------- state
VARIABLES
  env,            \* process.env
  now,            \* Date.now()
  ticks,          \* number of clock advances so far
  pc,             \* position of the request in the route
  request,        \* the multipart request received
  reqFile,        \* req.file: <<>> (undefined) or <<record>>
  uploads,        \* files of backend/uploads
  converted,      \* files of backend/converted
  inputFilePath,  \* convertWordToPdf: let inputFilePath
  outputFilePath, \* convertWordToPdf: let outputFilePath
  pdfBuffer,      \* convertWordToPdf: let pdfBuffer
  text,           \* convertWordToPdf: const text = result.value
  tryDepth,       \* number of inner try blocks around the pending await
  headers,        \* res.setHeader
  headersSent,    \* res.headersSent
  responses,      \* responses sent on res, in order
  timers,         \* pending setTimeout callbacks
  log,            \* what has happened to the request so far
  suspended,      \* the requests waiting at an await while another one runs
  ui              \* state of the Converter component in the browser

vars == <<env, now, ticks, pc, request, reqFile, uploads, converted, inputFilePath,
          outputFilePath, pdfBuffer, text, tryDepth, headers, headersSent, responses,
          timers, log, suspended, ui>>

NullPath == [dir |-> "", name |-> <<>>]

\* useState(null), useState(false), useState(null); no call, timer or toast yet
NoFile == [name |-> <<>>, size |-> 0]
NoUi ==
  [selectedFile |-> NoFile, isConverting |-> FALSE, conversionStatus |-> "null",
   pending |-> <<>>, resetTimers |-> {}, toast |-> "", event |-> ""]
\* a PDF document being built or saved: its pages, the lines drawn on them
\* and the cursor of the loop that draws them (next: the next line of lines)
NoBuffer ==
  [kind |-> "none", originalName |-> <<>>, date |-> 0, text |-> <<>>, length |-> 0,
   lines |-> <<>>, pages |-> 0, yPosition |-> 0, lineCount |-> 0, placed |-> <<>>,
   next |-> 0]
NoRequest == [kind |-> "none", originalname |-> <<>>, mimetype |-> "",
              body |-> [size |-> 0, bytes |-> <<>>]]
NoHeaders == [ContentType |-> "", ContentDisposition |-> <<>>, ContentLength |-> -1,
              CacheControl |-> ""]

InitLog ==
  [ nextBy |-> {}, convertInvoked |-> FALSE, signature |-> "unchecked",
    readable |-> TRUE, extract |-> "none", extractCalls |-> 0, layoutCalls |-> 0, fallbackCalls |-> 0, fallbackThrows |-> 0,
    fallbackOk |-> FALSE,
    soft |-> {}, write |-> "none", writes |-> 0, download |-> "none", callbackAt |-> -1,
    deletions |-> <<>>, swept |-> {} ]

Init ==
  /\ suspended = <<>>
  /\ ui = NoUi
  /\ env \in Envs
  /\ now = 0
  /\ ticks = 0
  /\ pc = "uploadMiddleware"
  /\ request = NoRequest
  /\ reqFile = <<>>
  /\ uploads = {}
  /\ converted = {}
  /\ inputFilePath = NullPath
  /\ outputFilePath = NullPath
  /\ pdfBuffer = NoBuffer
  /\ text = <<>>
  /\ tryDepth = 0
  /\ headers = NoHeaders
  /\ headersSent = FALSE
  /\ responses = <<>>
  /\ timers = {}
  /\ log = InitLog

\* ------------------------------------------------------------- file system
existsSync(dir, path) == \E f \in dir : f.path = path

FileAt(dir, path) == CHOOSE f \in dir : f.path = path

\* fs.unlinkSync on an existing file
unlinkSync(dir, path) == { f \in dir : f.path # path }

Deleted(path, by) == [path |-> path, by |-> by, at |-> now]

\* res.status(code).json(body)
JsonResponse(by, status, body) ==
  [by |-> by, kind |-> "json", status |-> status, body |-> body,
   contentType |-> "application/json", contentLength |-> -1, filename |-> <<>>,
   buffer |-> NoBuffer, complete |-> TRUE]

\* ---------------------------------------------------------- uploadMiddleware
\* fileFilter: TRUE when multer is told to accept the file
fileFilter(originalname) ==
  toLowerCase(extname(originalname)) \in { <<".", "d", "o", "c">>, <<".", "d", "o", "c", "x">> }

\* multer.diskStorage filename callback
StorageFilename(originalname, rnd) ==
  LET fileExtension == extname(originalname)
      baseName == basename(originalname, fileExtension)
  IN baseName \o <<"-">> \o NumberToString(now) \o <<"-">> \o NumberToString(rnd)
       \o fileExtension

\* the message uploadMiddleware picks for a MulterError
MulterMessage(code) ==
  CASE code = "LIMIT_FILE_SIZE" -> "File size too large. Maximum size allowed is 10MB."
    [] code = "LIMIT_FILE_COUNT" -> "Too many files. Only one file is allowed."
    [] code = "LIMIT_UNEXPECTED_FILE" ->
         "Unexpected file field. Please use \"file\" as the field name."
    [] OTHER -> "Too many parts"

\* what upload.single('file') hands to the callback: "" (no error), a
\* MulterError code, or "Error" for the error of fileFilter
SingleUploadError(r) ==
  IF r.kind = "nofile" THEN ""
  ELSE IF r.kind # "file" THEN r.kind
  ELSE IF ~fileFilter(r.originalname) THEN "Error"
  ELSE IF r.body.size > MaxSizeOf(env.MAX_FILE_SIZE) THEN "LIMIT_FILE_SIZE"
  ELSE ""

uploadSingle(requests, suffixes) ==
  /\ pc = "uploadMiddleware"
  /\ \E r \in requests, rnd \in suffixes :
       LET err == SingleUploadError(r)
           path == [dir |-> "uploads", name |-> StorageFilename(r.originalname, rnd)]
       IN
       /\ request' = r
       /\ IF err = "Error"
            THEN /\ responses' = Append(responses, JsonResponse("uploadMiddleware", 400,
                        [success |-> FALSE,
                         message |-> "Invalid file type. Only .doc and .docx files are allowed.",
                         error |-> "VALIDATION_ERROR"]))
                 /\ headersSent' = TRUE
                 /\ pc' = "done"
                 /\ UNCHANGED <<reqFile, uploads, log>>
          ELSE IF err # ""
            THEN /\ responses' = Append(responses, JsonResponse("uploadMiddleware", 400,
                        [success |-> FALSE, message |-> MulterMessage(err),
                         error |-> "UPLOAD_ERROR"]))
                 /\ headersSent' = TRUE
                 /\ pc' = "done"
                 /\ UNCHANGED <<reqFile, uploads, log>>
          ELSE /\ IF r.kind = "file"
                    THEN /\ reqFile' = << [originalname |-> r.originalname,
                                           mimetype |-> r.mimetype,
                                           size |-> r.body.size, path |-> path] >>
                         /\ uploads' = unlinkSync(uploads, path) \cup
                               { [path |-> path, size |-> r.body.size,
                                  bytes |-> r.body.bytes, mtime |-> now] }
                    ELSE UNCHANGED <<reqFile, uploads>>
               /\ log' = [log EXCEPT !.nextBy = @ \cup {"uploadMiddleware"}]
               /\ pc' = "validateFile"
               /\ UNCHANGED <<responses, headersSent>>
  /\ UNCHANGED <<ui, suspended, env, now, ticks, converted, inputFilePath, outputFilePath, pdfBuffer,
                 text, tryDepth, headers, timers>>

\* the random part of the stored upload's name (one value: with a single
\* request in flight no other stored name exists to tell it apart from)
StorageSuffixes == {0}

uploadMiddleware == uploadSingle(Requests, StorageSuffixes)

\* -------------------------------------------------------------- validateFile
\* variant: the rejection falls through to next()
ValidateReject_Next(status, message, code) ==
  /\ responses' = Append(responses, JsonResponse("validateFile", status,
        [success |-> FALSE, message |-> message, error |-> code]))
  /\ headersSent' = TRUE
  /\ pc' = "convertWordToPdf"

ValidateReject(status, message, code) ==
  /\ responses' = Append(responses, JsonResponse("validateFile", status,
        [success |-> FALSE, message |-> message, error |-> code]))
  /\ headersSent' = TRUE
  /\ pc' = "done"

\* variant: the rejection leaves the stored file in place
ValidateUnlinkAndReject_Keep(filePath, message, code) ==
  /\ ValidateReject(400, message, code)
  /\ UNCHANGED <<uploads, log>>

\* fs.unlinkSync(filePath) followed by the 400 response; unlinkSync throws
\* when the file is gone, which lands in the catch block
ValidateUnlinkAndReject(filePath, message, code) ==
  IF existsSync(uploads, filePath)
    THEN /\ uploads' = unlinkSync(uploads, filePath)
         /\ log' = [log EXCEPT !.deletions = Append(@, Deleted(filePath, "validateFile"))]
         /\ ValidateReject(400, message, code)
    ELSE /\ ValidateReject(500, "File validation failed. Please try again.",
                           "VALIDATION_ERROR")
         /\ UNCHANGED <<uploads, log>>

\* variant: the empty-file test never matches
IsEmptyFile_Never(stats) == stats.size < 0

\* stats.size === 0
IsEmptyFile(stats) == stats.size = 0

FileSizeMessage(maxSize) ==
  "File size too large. Maximum size allowed is " \o ToString(RoundMB(maxSize)) \o "MB."

validateFile ==
  /\ pc = "validateFile"
  /\ IF reqFile = <<>>
       THEN /\ ValidateReject(400, "No file uploaded. Please select a Word document.",
                              "NO_FILE")
            /\ UNCHANGED <<uploads, log>>
       ELSE
       LET originalname == reqFile[1].originalname
           mimetype == reqFile[1].mimetype
           size == reqFile[1].size
           filePath == reqFile[1].path
           fileExtension == toLowerCase(extname(originalname))
           maxSize == MaxSizeOf(env.MAX_FILE_SIZE)
       IN
       IF fileExtension \notin { <<".", "d", "o", "c">>, <<".", "d", "o", "c", "x">> }
         THEN ValidateUnlinkAndReject(filePath,
                "Invalid file type. Only .doc and .docx files are allowed.",
                "INVALID_FILE_TYPE")
       ELSE IF mimetype \notin {MimeDoc, MimeDocx}
         THEN ValidateUnlinkAndReject(filePath,
                "Invalid file format. Please upload a valid Word document.",
                "INVALID_MIME_TYPE")
       ELSE IF size > maxSize
         THEN ValidateUnlinkAndReject(filePath, FileSizeMessage(maxSize), "FILE_TOO_LARGE")
       ELSE IF ~existsSync(uploads, filePath)
         THEN /\ ValidateReject(500, "File upload failed. Please try again.",
                                "FILE_NOT_FOUND")
              /\ UNCHANGED <<uploads, log>>
       ELSE IF IsEmptyFile(FileAt(uploads, filePath))
         THEN ValidateUnlinkAndReject(filePath,
                "Uploaded file is empty. Please select a valid Word document.",
                "EMPTY_FILE")
       ELSE /\ log' = [log EXCEPT !.nextBy = @ \cup {"validateFile"}]
            /\ pc' = "convertWordToPdf"
            /\ UNCHANGED <<uploads, responses, headersSent>>
  /\ UNCHANGED <<ui, suspended, env, now, ticks, request, reqFile, converted, inputFilePath,
                 outputFilePath, pdfBuffer, text, tryDepth, headers, timers>>

\* ------------------------------------------------------------------ fileUtils
\* variant: the new extension is ignored
generateUniqueFilename_KeepExt(originalName, newExtension, rnd) ==
  CleanBaseName(basename(originalName, extname(originalName))) \o <<"_">>
    \o NumberToString(now) \o <<"_">> \o NumberToString(rnd) \o extname(originalName)

\* generateUniqueFilename(originalName, newExtension); <<>> is a null extension
generateUniqueFilename(originalName, newExtension, rnd) ==
  LET timestamp == now
      randomSuffix == rnd
      baseName == basename(originalName, extname(originalName))
      extension == IF newExtension # <<>> THEN newExtension ELSE extname(originalName)
      cleanBaseName == CleanBaseName(baseName)
  IN cleanBaseName \o <<"_">> \o NumberToString(timestamp) \o <<"_">>
       \o NumberToString(randomSuffix) \o extension

\* variant: the deletion empties the directory of the path
cleanupFile_Directory(dir, dirName, filePath) ==
  IF filePath # NullPath /\ filePath.dir = dirName THEN {} ELSE dir

\* cleanupFile(filePath): the directory contents afterwards
\* variant: cleanupFile leaves the file in place
cleanupFile_Keep(dir, dirName, filePath) == dir

cleanupFile(dir, dirName, filePath) ==
  IF filePath # NullPath /\ filePath.dir = dirName /\ existsSync(dir, filePath)
    THEN unlinkSync(dir, filePath)
    ELSE dir

\* the deletions cleanupFile(inputFilePath); cleanupFile(outputFilePath)
\* performs on the directory contents ups / conv
CleanupDeletions(inPath, outPath, ups, conv, by) ==
  (IF inPath # NullPath /\ existsSync(ups, inPath)
     THEN <<Deleted(inPath, by)>> ELSE <<>>)
  \o
  (IF outPath # NullPath /\ existsSync(conv, outPath)
     THEN <<Deleted(outPath, by)>> ELSE <<>>)

\* ------------------------------------------------------------ convertController
Slice(buffer, start, end) ==
  SubSeq(buffer, start + 1, IF end < Len(buffer) THEN end ELSE Len(buffer))

\* variant: the spanned-archive signature is missing
validSignatures_NoSpanned ==
  { <<80, 75, 3, 4>>, <<80, 75, 5, 6>> }

validSignatures ==
  { <<80, 75, 3, 4>>, <<80, 75, 5, 6>>, <<80, 75, 7, 8>> }

\* validateDocxFile(filePath); readable = FALSE: fs.readFileSync throws
validateDocxFile(filePath, readable) ==
  IF ~readable \/ ~existsSync(uploads, filePath)
    THEN FALSE
    ELSE LET buffer == FileAt(uploads, filePath).bytes
             zipSignature == Slice(buffer, 0, 4)
         IN \E sig \in validSignatures : zipSignature = sig

\* variant: the stack is attached unless NODE_ENV is 'production'
ErrorBody_NonProduction(message) ==
  IF env.NODE_ENV # "production"
    THEN [success |-> FALSE, message |-> message, error |-> "error.stack"]
    ELSE [success |-> FALSE, message |-> message]

\* the catch block of convertWordToPdf (lines 225-240), reached with the
\* directory contents ups / conv
ErrorBody(message) ==
  IF env.NODE_ENV = "development"
    THEN [success |-> FALSE, message |-> message, error |-> "error.stack"]
    ELSE [success |-> FALSE, message |-> message]

ConvertCatch(message, conv, lg) ==
  /\ uploads' = cleanupFile(uploads, "uploads", inputFilePath)
  /\ converted' = cleanupFile(conv, "converted", outputFilePath)
  /\ log' = [lg EXCEPT !.deletions =
                @ \o CleanupDeletions(inputFilePath, outputFilePath, uploads, conv, "catch")]
  /\ IF ~headersSent
       THEN /\ responses' = Append(responses,
                  JsonResponse("convertWordToPdf", 500, ErrorBody(message)))
            /\ headersSent' = TRUE
       ELSE UNCHANGED <<responses, headersSent>>
  /\ pc' = "done"

\* a call of createFallbackPdf at try depth d, for the soft condition why
CallFallback(d, why, extracted) ==
  /\ pc' = "createFallbackPdf"
  /\ tryDepth' = d
  /\ log' = [log EXCEPT !.convertInvoked = TRUE,
                        !.fallbackCalls = @ + 1,
                        !.extract = extracted,
                        !.soft = @ \cup why]

DocxExt == <<".", "d", "o", "c", "x">>
DocExt == <<".", "d", "o", "c">>
PdfExt == <<".", "p", "d", "f">>

\* convertWordToPdf up to its first await
\* variant: the .doc extension is sent through the signature check too
IsDocx_OrDoc(fileExtension) == fileExtension \in {DocxExt, DocExt}
\* if (fileExtension === '.docx')
IsDocx(fileExtension) == fileExtension = DocxExt

convertWordToPdfWith(suffixes) ==
  /\ pc = "convertWordToPdf"
  /\ IF reqFile = <<>>
       THEN /\ responses' = Append(responses, JsonResponse("convertWordToPdf", 400,
                  [success |-> FALSE,
                   message |-> "No file uploaded. Please select a Word document."]))
            /\ headersSent' = TRUE
            /\ pc' = "done"
            /\ log' = [log EXCEPT !.convertInvoked = TRUE]
            /\ UNCHANGED <<inputFilePath, outputFilePath, tryDepth>>
       ELSE
       \E rnd \in suffixes :
         LET originalname == reqFile[1].originalname
             outputFileName == generateUniqueFilename(originalname, PdfExt, rnd)
             fileExtension == toLowerCase(extname(originalname))
         IN
         /\ inputFilePath' = reqFile[1].path
         /\ outputFilePath' = [dir |-> "converted", name |-> outputFileName]
         /\ UNCHANGED <<responses, headersSent>>
         /\ IF IsDocx(fileExtension)
              THEN \E readable \in BOOLEAN :
                     IF ~validateDocxFile(reqFile[1].path, readable)
                       THEN /\ pc' = "createFallbackPdf"
                            /\ tryDepth' = 1
                            /\ log' = [log EXCEPT !.convertInvoked = TRUE,
                                                  !.signature = "invalid",
                                                  !.readable = readable,
                                                  !.fallbackCalls = @ + 1,
                                                  !.soft = @ \cup {"signature"}]
                       ELSE /\ pc' = "extractRawText"
                            /\ tryDepth' = 1
                            /\ log' = [log EXCEPT !.convertInvoked = TRUE,
                                                  !.signature = "valid",
                                                  !.extractCalls = @ + 1]
            ELSE IF fileExtension = DocExt
              THEN /\ pc' = "extractRawText"
                   /\ tryDepth' = 2
                   /\ log' = [log EXCEPT !.convertInvoked = TRUE,
                                         !.extractCalls = @ + 1]
            ELSE CallFallback(0, {"unsupported"}, log.extract)
  /\ UNCHANGED <<ui, suspended, env, now, ticks, request, reqFile, uploads, converted, pdfBuffer, text,
                 headers, timers>>

\* variant: the emptiness test without trim()
IsUnusableText_NoTrim(value) == value = <<>>

\* !text || text.trim().length === 0
IsUnusableText(value) == value = <<>> \/ Len(trim(value)) = 0

\* A throw inside the try blocks is caught one level out, and the catch
\* block calls createFallbackPdf (lines 170 and 181): CallFallback(tryDepth - 1, ..)
\* await mammoth.extractRawText(...) settles
extractRawText ==
  /\ pc = "extractRawText"
  /\ \/ /\ CallFallback(tryDepth - 1, {"extraction_exception"}, "threw")
        /\ UNCHANGED text
     \/ \E value \in ExtractedTexts :
          /\ text' = value
          /\ IF IsUnusableText(value)
               THEN CallFallback(tryDepth, {"empty_text"}, "value")
               ELSE /\ pc' = "createPdfFromText"
                    /\ log' = [log EXCEPT !.layoutCalls = @ + 1, !.extract = "value"]
                    /\ UNCHANGED tryDepth
  /\ UNCHANGED <<ui, suspended, env, now, ticks, request, reqFile, uploads, converted, inputFilePath,
                 outputFilePath, pdfBuffer, headers, headersSent, responses, timers>>

\* ------------------------------------------------------- createPdfFromText
\* lengths are in hundredths of a point (pageHeight 841.89, pageWidth 595.28)
linesPerPage == 40
pageWidth == 59528
pageHeight == 84189
margin == 5000
lineHeight == 1400
fontSize == 12
maxCharsPerLine == 80

Min(a, b) == IF a < b THEN a ELSE b

\* text.split('\n')
NewlinePositions(t) == { i \in DOMAIN t : t[i] = "\n" }

split(t) ==
  LET nl == NewlinePositions(t)
      count == Cardinality(nl)
      cut == [ n \in 0..(count + 1) |->
                 IF n = 0 THEN 0
                 ELSE IF n = count + 1 THEN Len(t) + 1
                 ELSE CHOOSE p \in nl : Cardinality({ q \in nl : q < p }) = n - 1 ]
  IN [ n \in 1..(count + 1) |-> SubSeq(t, cut[n - 1] + 1, cut[n] - 1) ]

\* pdfDoc.addPage and the initial cursor
StartDocument(t) ==
  [kind |-> "building", originalName |-> <<>>, date |-> 0, text |-> t, length |-> 0,
   lines |-> split(t), pages |-> 1, yPosition |-> pageHeight - margin, lineCount |-> 0,
   placed |-> <<>>, next |-> 1]

\* variant: the page is left one line early
NeedsNewPage_Early(doc) ==
  doc.lineCount + 1 >= linesPerPage \/ doc.yPosition < margin + lineHeight
\* variant: a cursor on the boundary leaves the page too
NeedsNewPage_AtBoundary(doc) ==
  doc.lineCount >= linesPerPage \/ doc.yPosition <= margin + lineHeight
\* if (lineCount >= linesPerPage || yPosition < margin + lineHeight)
NeedsNewPage(doc) ==
  doc.lineCount >= linesPerPage \/ doc.yPosition < margin + lineHeight

NewPageIfNeeded(doc) ==
  IF NeedsNewPage(doc)
    THEN [doc EXCEPT !.pages = @ + 1, !.yPosition = pageHeight - margin, !.lineCount = 0]
    ELSE doc

\* variant: a drawn line is not counted
drawText_NoCount(doc, str, from) ==
  [doc EXCEPT !.placed = Append(@, [page |-> doc.pages, x |-> margin, y |-> doc.yPosition,
                                    size |-> fontSize, text |-> str, from |-> from]),
              !.yPosition = @ - lineHeight]
\* currentPage.drawText(..); yPosition -= lineHeight; lineCount++
\* (from: the index in lines of the input line the drawn text comes from)
drawText(doc, str, from) ==
  [doc EXCEPT !.placed = Append(@, [page |-> doc.pages, x |-> margin, y |-> doc.yPosition,
                                    size |-> fontSize, text |-> str, from |-> from]),
              !.yPosition = @ - lineHeight,
              !.lineCount = @ + 1]

\* if (line.length > maxCharsPerLine)
IsLongLine(line) == Len(line) > maxCharsPerLine

\* variant: the segments are pushed in the reverse order
wrappedLines_Reversed(line) ==
  LET count == (Len(line) + maxCharsPerLine - 1) \div maxCharsPerLine
  IN [ j \in 1..count |->
         SubSeq(line, (count - j) * maxCharsPerLine + 1,
                Min((count - j + 1) * maxCharsPerLine, Len(line))) ]
\* variant: the segments end one character early
wrappedLines_Short(line) ==
  [ j \in 1..((Len(line) + maxCharsPerLine - 1) \div maxCharsPerLine) |->
      SubSeq(line, (j - 1) * maxCharsPerLine + 1,
             Min(j * maxCharsPerLine - 1, Len(line))) ]
\* for (let i = 0; i < line.length; i += maxCharsPerLine) line.substring(i, i + ..)
wrappedLines(line) ==
  [ j \in 1..((Len(line) + maxCharsPerLine - 1) \div maxCharsPerLine) |->
      SubSeq(line, (j - 1) * maxCharsPerLine + 1, Min(j * maxCharsPerLine, Len(line))) ]

RECURSIVE DrawWrapped(_, _, _)
DrawWrapped(doc, wrapped, from) ==
  IF wrapped = <<>> THEN doc
  ELSE DrawWrapped(drawText(NewPageIfNeeded(doc), Head(wrapped), from), Tail(wrapped), from)

\* one iteration of for (const line of lines)
PlaceLine(doc, line) ==
  LET paged == NewPageIfNeeded(doc)
      drawn == IF IsLongLine(line)
                 THEN DrawWrapped(paged, wrappedLines(line), doc.next)
                 ELSE drawText(paged, line, doc.next)
  IN [drawn EXCEPT !.next = @ + 1]

RECURSIVE PlaceLines(_)
PlaceLines(doc) ==
  IF doc.next > Len(doc.lines) THEN doc ELSE PlaceLines(PlaceLine(doc, doc.lines[doc.next]))

\* pdfDoc.save()
SaveDocument(doc, length) == [doc EXCEPT !.kind = "text", !.length = length]

LayoutOf(t) == PlaceLines(StartDocument(t))

\* variant: an exception of createPdfFromText leaves through the outer catch
LayoutThrows_Fatal ==
  /\ ConvertCatch("layout", converted, [log EXCEPT !.soft = @ \cup {"layout_exception"}])
  /\ UNCHANGED tryDepth
\* an exception of createPdfFromText is caught by the try it was called in
\* (catch (docError) at 167 for .doc, catch (conversionError) at 176 for .docx)
LayoutThrows ==
  /\ CallFallback(tryDepth - 1, {"layout_exception"}, log.extract)
  /\ UNCHANGED <<uploads, converted, responses, headersSent>>

\* await createPdfFromText(text) settles
createPdfFromText ==
  /\ pc = "createPdfFromText"
  /\ \/ /\ LayoutThrows
        /\ UNCHANGED pdfBuffer
     \/ \E length \in PdfLengths :
          /\ pdfBuffer' = SaveDocument(LayoutOf(text), length)
          /\ pc' = "writeFileSync"
          /\ UNCHANGED <<tryDepth, log, uploads, converted, responses, headersSent>>
  /\ UNCHANGED <<ui, suspended, env, now, ticks, request, reqFile, inputFilePath,
                 outputFilePath, text, headers, timers>>

\* -------------------------------------------------------- createFallbackPdf
\* the lines of the notice; a line is a sequence of string pieces
FallbackLines(originalName, date) ==
  << <<"Word to PDF Conversion Notice">>,
     <<>>,
     <<"Original file: ">> \o originalName,
     <<"Conversion date: ">> \o NumberToString(date),
     <<>>,
     <<"Note: The original Word document could not be fully processed.">>,
     <<"This may be due to:">>,
     <<"(bullet) File corruption or damage">>,
     <<"(bullet) Unsupported Word document format">>,
     <<"(bullet) Complex formatting that cannot be converted">>,
     <<>>,
     <<"Please try:">>,
     <<"1. Opening the document in Microsoft Word">>,
     <<"2. Saving it as a new .docx file">>,
     <<"3. Converting the new file">>,
     <<>>,
     <<"If the problem persists, please contact support.">> >>

titleSize == 16
titleDrop == 2000
lineGap == 400

\* const textSize = index === 0 ? 16 : fontSize
TextSize(index) == IF index = 0 THEN titleSize ELSE fontSize

\* y of the line with (0-based) index: height - margin - 20, then
\* yPosition -= textSize + 4 after every line
RECURSIVE FallbackY(_)
FallbackY(index) ==
  IF index = 0 THEN pageHeight - margin - titleDrop
  ELSE FallbackY(index - 1) - (TextSize(index - 1) * 100 + lineGap)

FallbackDocument(originalName, date, length) ==
  LET lines == FallbackLines(originalName, date) IN
  [kind |-> "fallback", originalName |-> originalName, date |-> date, text |-> <<>>,
   length |-> length, lines |-> lines, pages |-> 1, yPosition |-> FallbackY(Len(lines)),
   lineCount |-> 0,
   placed |-> [ i \in 1..Len(lines) |->
                  [page |-> 1, x |-> margin, y |-> FallbackY(i - 1),
                   size |-> TextSize(i - 1), text |-> lines[i], from |-> i] ],
   next |-> Len(lines) + 1]

\* await createFallbackPdf(inputFilePath, originalname) settles
createFallbackPdf ==
  /\ pc = "createFallbackPdf"
  /\ \/ \E length \in PdfLengths :
          /\ pdfBuffer' = FallbackDocument(reqFile[1].originalname, now, length)
          /\ pc' = "writeFileSync"
          /\ log' = [log EXCEPT !.fallbackOk = TRUE]
          /\ UNCHANGED <<tryDepth, uploads, converted, responses, headersSent>>
     \/ /\ tryDepth > 0
        /\ pc' = "createFallbackPdf"
        /\ tryDepth' = tryDepth - 1
        /\ log' = [log EXCEPT !.fallbackCalls = @ + 1, !.fallbackThrows = @ + 1]
        /\ UNCHANGED <<pdfBuffer, uploads, converted, responses, headersSent>>
     \/ /\ tryDepth = 0
        /\ ConvertCatch("Unable to create PDF document", converted,
                        [log EXCEPT !.fallbackThrows = @ + 1])
        /\ UNCHANGED <<pdfBuffer, tryDepth>>
  /\ UNCHANGED <<ui, suspended, env, now, ticks, request, reqFile, inputFilePath, outputFilePath, text,
                 headers, timers>>

\* the synchronous continuation after pdfBuffer is known (lines 184-205):
\* fs.writeFileSync, fs.existsSync, fs.statSync, res.setHeader, res.download
\* (empty: the write returns and leaves a file of zero length; missing: the
\* write returns and no file is there)
WriteOutcomes == {"ok", "empty", "throws", "throws_partial", "missing"}

writeFileSync ==
  /\ pc = "writeFileSync"
  /\ \E outcome \in WriteOutcomes :
       LET written == IF outcome = "empty"
                        THEN [path |-> outputFilePath, size |-> 0,
                              buffer |-> NoBuffer, mtime |-> now]
                        ELSE [path |-> outputFilePath, size |-> pdfBuffer.length,
                              buffer |-> pdfBuffer, mtime |-> now]
           partial == [written EXCEPT !.size = 0]
           lg == [log EXCEPT !.write = outcome, !.writes = @ + 1]
       IN
       CASE outcome = "throws" ->
              /\ ConvertCatch("ENOSPC: no space left on device, write", converted, lg)
              /\ UNCHANGED headers
         [] outcome = "throws_partial" ->
              /\ ConvertCatch("ENOSPC: no space left on device, write",
                              unlinkSync(converted, outputFilePath) \cup {partial}, lg)
              /\ UNCHANGED headers
         [] outcome = "missing" ->
              /\ ConvertCatch("PDF file was not generated successfully", converted, lg)
              /\ UNCHANGED headers
         [] outcome \in {"ok", "empty"} ->
              LET conv == unlinkSync(converted, outputFilePath) \cup {written}
                  stats == FileAt(conv, outputFilePath)
                  outputFileName_clean == outputFilePath.name
              IN
              /\ converted' = conv
              /\ headers' = [ContentType |-> "application/pdf",
                             ContentDisposition |-> outputFileName_clean,
                             ContentLength |-> stats.size,
                             CacheControl |-> "no-cache"]
              /\ log' = lg
              /\ pc' = "download"
              /\ UNCHANGED <<uploads, responses, headersSent>>
  /\ UNCHANGED <<ui, suspended, env, now, ticks, request, reqFile, inputFilePath, outputFilePath,
                 pdfBuffer, text, tryDepth, timers>>

\* variant: the cleanup is due at once
TimerDeadline_Now(start) == start

\* setTimeout(.., 5000): the time the callback is due
TimerDeadline(start) == start + CleanupDelayMs

\* the callback of res.download(outputFilePath, outputFileName_clean, cb)
DownloadOutcomes == {"ok", "error_after_headers", "error_before_headers"}

\* variant: the error reply is sent when the headers have been sent
DownloadErrorReply_AfterHeaders(downloadErr, sent) == downloadErr /\ sent

\* variant: the error reply does not look at res.headersSent
DownloadErrorReply_Always(downloadErr, sent) == downloadErr

\* if (downloadErr) { if (!res.headersSent) { return res.status(500).json(..) } }
DownloadErrorReply(downloadErr, sent) == downloadErr /\ ~sent

download ==
  /\ pc = "download"
  /\ \E outcome \in DownloadOutcomes :
       LET downloadErr == outcome # "ok"
           sent == headersSent \/ outcome # "error_before_headers"
           transfer ==
             IF outcome = "error_before_headers"
               THEN <<>>
               ELSE << [by |-> "download", kind |-> "pdf", status |-> 200,
                        body |-> [success |-> TRUE],
                        contentType |-> headers.ContentType,
                        contentLength |-> headers.ContentLength,
                        filename |-> headers.ContentDisposition,
                        buffer |-> FileAt(converted, outputFilePath).buffer,
                        complete |-> (outcome = "ok")] >>
       IN
       /\ outcome # "error_before_headers" => existsSync(converted, outputFilePath)
       /\ log' = [log EXCEPT !.download = outcome, !.callbackAt = now]
       /\ pc' = "done"
       /\ headersSent' = TRUE
       /\ IF DownloadErrorReply(downloadErr, sent)
            THEN /\ responses' = responses \o transfer \o
                       << JsonResponse("download", 500,
                            [success |-> FALSE,
                             message |-> "Error occurred while downloading the converted file"]) >>
                 /\ UNCHANGED timers
            ELSE /\ responses' = responses \o transfer
                 /\ timers' = timers \cup
                      { [deadline |-> TimerDeadline(now), input |-> inputFilePath,
                         output |-> outputFilePath] }
  /\ UNCHANGED <<ui, suspended, env, now, ticks, request, reqFile, uploads, converted, inputFilePath,
                 outputFilePath, pdfBuffer, text, tryDepth, headers>>

\* the setTimeout callback of lines 219-222
cleanupTimer ==
  /\ \E t \in timers :
       /\ now >= t.deadline
       /\ uploads' = cleanupFile(uploads, "uploads", t.input)
       /\ converted' = cleanupFile(converted, "converted", t.output)
       /\ log' = [log EXCEPT !.deletions =
                     @ \o CleanupDeletions(t.input, t.output, uploads, converted, "setTimeout")]
       /\ timers' = timers \ {t}
  /\ UNCHANGED <<ui, suspended, env, now, ticks, pc, request, reqFile, inputFilePath, outputFilePath,
                 pdfBuffer, text, tryDepth, headers, headersSent, responses>>

\* time passes while the event loop is idle: at an await of the request and
\* after it; a due timer runs before the clock moves past its deadline
TickSteps == {1, CleanupDelayMs}

AwaitPoints ==
  {"extractRawText", "createPdfFromText", "createFallbackPdf", "download", "done"}

Elapse(steps) ==
  /\ pc \in AwaitPoints
  /\ ticks < MaxTicks
  /\ \E d \in steps :
       /\ \A t \in timers : now + d <= t.deadline
       /\ now' = now + d
  /\ ticks' = ticks + 1
  /\ UNCHANGED <<ui, suspended, env, pc, request, reqFile, uploads, converted, inputFilePath,
                 outputFilePath, pdfBuffer, text, tryDepth, headers, headersSent,
                 responses, timers, log>>

Tick == Elapse(TickSteps)

convertWordToPdf == convertWordToPdfWith(RandomSuffixes)

Next ==
  \/ uploadMiddleware
  \/ validateFile
  \/ convertWordToPdf
  \/ extractRawText
  \/ createPdfFromText
  \/ createFallbackPdf
  \/ writeFileSync
  \/ download
  \/ cleanupTimer
  \/ Tick

Spec == Init /\ [][Next]_vars

\* ------------------------------------------------ progress of one request
\* requests that take every branch of the route: a rejected extension, a
\* rejected MIME type, an empty file, a good and a bad zip signature, a .doc
\* upload, and a request without a file
ProgressRequests ==
  [kind : {"file"}, originalname : {Str_a_docx, Str_a_doc, Str_a_txt},
   mimetype : {MimeDocx, "text/plain"},
   body : { [size |-> 0, bytes |-> <<>>],
            [size |-> 1024, bytes |-> <<80, 75, 3, 4, 20>>],
            [size |-> 1024, bytes |-> <<255, 255, 255, 255, 0>>] }]
  \cup
  [kind : {"nofile"}, originalname : {<<>>}, mimetype : {""},
   body : {[size |-> 0, bytes |-> <<>>]}]

uploadOne == uploadSingle(ProgressRequests, StorageSuffixes)

convertOne == convertWordToPdfWith({0})

\* the steps of the request and of its timer: every pending continuation
\* (middleware call, settled await, download callback, due timer) is run by
\* the event loop
JobStep ==
  \/ uploadOne
  \/ validateFile
  \/ convertOne
  \/ extractRawText
  \/ createPdfFromText
  \/ createFallbackPdf
  \/ writeFileSync
  \/ download
  \/ cleanupTimer

NextLive ==
  \/ uploadOne
  \/ validateFile
  \/ convertOne
  \/ extractRawText
  \/ createPdfFromText
  \/ createFallbackPdf
  \/ writeFileSync
  \/ download
  \/ cleanupTimer
  \/ Tick

SpecLive == Init /\ [][NextLive]_vars /\ WF_vars(JobStep)

\* ------------------------------------------------- the periodic stale sweep
\* files left behind by earlier requests, by their age when the server is
\* observed: one past the retention threshold, one exactly at it
SweepStart == MaxAgeMs + 1

Str_kept_docx == <<"k", "e", "p", "t", ".", "d", "o", "c", "x">>
Str_old_pdf == <<"o", "l", "d", ".", "p", "d", "f">>

LeftoverUploads ==
  { [path |-> [dir |-> "uploads", name |-> Str_kept_docx], size |-> 1024,
     bytes |-> <<80, 75, 3, 4, 20>>, mtime |-> 1] }

LeftoverConverted ==
  { [path |-> [dir |-> "converted", name |-> Str_old_pdf], size |-> 583,
     buffer |-> NoBuffer, mtime |-> 0] }

InitSweep ==
  /\ suspended = <<>>
  /\ ui = NoUi
  /\ env \in { e \in Envs : e.NODE_ENV = "production" }
  /\ now = SweepStart
  /\ ticks = 0
  /\ pc = "uploadMiddleware"
  /\ request = NoRequest
  /\ reqFile = <<>>
  /\ uploads = LeftoverUploads
  /\ converted = LeftoverConverted
  /\ inputFilePath = NullPath
  /\ outputFilePath = NullPath
  /\ pdfBuffer = NoBuffer
  /\ text = <<>>
  /\ tryDepth = 0
  /\ headers = NoHeaders
  /\ headersSent = FALSE
  /\ responses = <<>>
  /\ timers = {}
  /\ log = InitLog

\* variant: a file exactly at the threshold counts as stale
IsStale_AtThreshold(t, mtime, maxAgeMs) == t - mtime >= maxAgeMs
\* now - stats.mtime.getTime() > maxAgeMs
IsStale(t, mtime, maxAgeMs) == t - mtime > maxAgeMs

StaleFiles(dir) == { f \in dir : IsStale(now, f.mtime, MaxAgeMs) }

Swept(files) == { [path |-> f.path, mtime |-> f.mtime, at |-> now] : f \in files }

\* one pass over a directory: every stale file is unlinked, unless statSync
\* or unlinkSync throws at some file, which ends the pass for the directory
\* with the files unlinked so far (readdir order is not specified)
cleanupOldFiles(dir) == { dir \ gone : gone \in SUBSET StaleFiles(dir) }

\* the setInterval callback: cleanupOldFiles on both directories; it runs
\* between the steps of a request, whenever the event loop is free
SweepPoints == AwaitPoints \cup {"uploadMiddleware"}

sweep ==
  /\ pc \in SweepPoints
  /\ \E ups \in cleanupOldFiles(uploads), conv \in cleanupOldFiles(converted) :
       /\ (uploads \ ups) \cup (converted \ conv) # {}
       /\ uploads' = ups
       /\ converted' = conv
       /\ log' = [log EXCEPT !.swept =
                    @ \cup Swept(uploads \ ups) \cup Swept(converted \ conv)]
  /\ UNCHANGED <<ui, suspended, env, now, ticks, pc, request, reqFile, inputFilePath, outputFilePath,
                 pdfBuffer, text, tryDepth, headers, headersSent, responses, timers>>

\* the requests and clock steps the sweep is observed with
SweepRequests ==
  [kind : {"file"}, originalname : {Str_a_docx}, mimetype : {MimeDocx},
   body : { [size |-> 1024, bytes |-> <<80, 75, 3, 4, 20>>],
            [size |-> 1024, bytes |-> <<255, 255, 255, 255, 0>>] }]

SweepTickSteps == {1, CleanupDelayMs, MaxAgeMs}

uploadBetweenSweeps == uploadSingle(SweepRequests, StorageSuffixes)

convertBetweenSweeps == convertWordToPdfWith({0})

TickBetweenSweeps == Elapse(SweepTickSteps)

NextSweep ==
  \/ uploadBetweenSweeps
  \/ validateFile
  \/ convertBetweenSweeps
  \/ extractRawText
  \/ createPdfFromText
  \/ createFallbackPdf
  \/ writeFileSync
  \/ download
  \/ cleanupTimer
  \/ TickBetweenSweeps
  \/ sweep

SpecSweep == InitSweep /\ [][NextSweep]_vars

\* --------------------------------------------- createPdfFromText on its own
\* the texts the layout is run on: every line has a space at each seventh
\* column, letters elsewhere; a text is given by the lengths of its lines
LineText(i, n) ==
  [ j \in 1..n |-> IF j % 7 = 0 THEN " " ELSE <<"a", "b", "c">>[(i % 3) + 1] ]

\* lines first..last joined by line breaks
RECURSIVE JoinLines(_, _, _)
JoinLines(lengths, first, last) ==
  IF first = last THEN LineText(first, lengths[first])
  ELSE LET mid == (first + last) \div 2
       IN JoinLines(lengths, first, mid) \o <<"\n">> \o JoinLines(lengths, mid + 1, last)

Uniform(n, len) == [ i \in 1..n |-> len ]

LineLengths ==
  { Uniform(n, len) : n \in {1, 2, 3, 39, 40, 41, 42}, len \in {0, 1, 79, 80} }
  \cup { Uniform(n, len) : n \in {80, 81}, len \in {0, 1} }
  \cup { <<len>> : len \in {81, 159, 160, 161, 240, 241, 321} }
  \cup { Uniform(38, 1) \o <<len>> \o Uniform(38, 1) \o <<len>> : len \in {241, 321} }
  \cup { Uniform(39, 7) \o <<len>> : len \in {80, 81, 161} }
  \cup { <<len>> \o Uniform(38, 80) : len \in {81, 161} }
  \cup { <<3, 0, 161, 80, 0>>, <<81, 81>>, Uniform(38, 1) \o <<161>> \o Uniform(39, 1) }

LayoutTexts == { JoinLines(lengths, 1, Len(lengths)) : lengths \in LineLengths }

InitLayout ==
  /\ suspended = <<>>
  /\ ui = NoUi
  /\ env \in { e \in Envs : e.NODE_ENV = "production" }
  /\ now = 0
  /\ ticks = 0
  /\ pc = "placeLine"
  /\ request = NoRequest
  /\ reqFile = <<>>
  /\ uploads = {}
  /\ converted = {}
  /\ inputFilePath = NullPath
  /\ outputFilePath = NullPath
  /\ text \in LayoutTexts
  /\ pdfBuffer = StartDocument(text)
  /\ tryDepth = 0
  /\ headers = NoHeaders
  /\ headersSent = FALSE
  /\ responses = <<>>
  /\ timers = {}
  /\ log = InitLog

\* one iteration of the loop over lines
placeLine ==
  /\ pc = "placeLine"
  /\ pdfBuffer.next <= Len(pdfBuffer.lines)
  /\ pdfBuffer' = PlaceLine(pdfBuffer, pdfBuffer.lines[pdfBuffer.next])
  /\ UNCHANGED <<ui, suspended, env, now, ticks, pc, request, reqFile, uploads, converted, inputFilePath,
                 outputFilePath, text, tryDepth, headers, headersSent, responses, timers,
                 log>>

\* the loop is over: return await pdfDoc.save()
saveDocument ==
  /\ pc = "placeLine"
  /\ pdfBuffer.next > Len(pdfBuffer.lines)
  /\ \E length \in PdfLengths : pdfBuffer' = SaveDocument(pdfBuffer, length)
  /\ pc' = "saved"
  /\ UNCHANGED <<ui, suspended, env, now, ticks, request, reqFile, uploads, converted, inputFilePath,
                 outputFilePath, text, tryDepth, headers, headersSent, responses, timers,
                 log>>

NextLayout ==
  \/ placeLine
  \/ saveDocument

SpecLayout == InitLayout /\ [][NextLayout]_vars


\* ------------------------------------------------ the page check on its own
\* the cursors the page check is evaluated at: every line count of a page with
\* every height a run of the loop reaches, and the heights around the boundary
\* margin + lineHeight
CursorLineCounts == 0..linesPerPage
CursorPositions ==
  { pageHeight - margin - k * lineHeight : k \in 0..linesPerPage }
  \cup { margin + lineHeight - 1, margin + lineHeight, margin + lineHeight + 1 }

CursorAt(count, y) ==
  [StartDocument(<<"a">>) EXCEPT !.lineCount = count, !.yPosition = y]

InitCursor ==
  /\ suspended = <<>>
  /\ ui = NoUi
  /\ env \in { e \in Envs : e.NODE_ENV = "production" }
  /\ now = 0
  /\ ticks = 0
  /\ pc = "checkPage"
  /\ request = NoRequest
  /\ reqFile = <<>>
  /\ uploads = {}
  /\ converted = {}
  /\ inputFilePath = NullPath
  /\ outputFilePath = NullPath
  /\ text = <<"a">>
  /\ \E count \in CursorLineCounts, y \in CursorPositions : pdfBuffer = CursorAt(count, y)
  /\ tryDepth = 0
  /\ headers = NoHeaders
  /\ headersSent = FALSE
  /\ responses = <<>>
  /\ timers = {}
  /\ log = InitLog

\* if (lineCount >= linesPerPage || yPosition < margin + lineHeight) { addPage .. }
checkPage ==
  /\ pc = "checkPage"
  /\ pdfBuffer' = NewPageIfNeeded(pdfBuffer)
  /\ pc' = "drawText"
  /\ UNCHANGED <<ui, suspended, env, now, ticks, request, reqFile, uploads, converted, inputFilePath,
                 outputFilePath, text, tryDepth, headers, headersSent, responses, timers,
                 log>>

\* currentPage.drawText(line, ..); yPosition -= lineHeight; lineCount++
drawLine ==
  /\ pc = "drawText"
  /\ pdfBuffer' = [drawText(pdfBuffer, pdfBuffer.lines[1], 1) EXCEPT !.next = @ + 1]
  /\ pc' = "drawn"
  /\ UNCHANGED <<ui, suspended, env, now, ticks, request, reqFile, uploads, converted, inputFilePath,
                 outputFilePath, text, tryDepth, headers, headersSent, responses, timers,
                 log>>

NextCursor ==
  \/ checkPage
  \/ drawLine

SpecCursor == InitCursor /\ [][NextCursor]_vars


\* --------------------------------------------------- validateFile on its own
\* the handler is entered with any file the storage engine may have written
\* (every name, declared type and body) or with no file
StoredRequests == { r \in Requests : r.kind \in {"file", "nofile"} }

StoredPath(r) == [dir |-> "uploads", name |-> StorageFilename(r.originalname, 0)]

InitValidate ==
  /\ suspended = <<>>
  /\ ui = NoUi
  /\ env \in Envs
  /\ now = 0
  /\ ticks = 0
  /\ pc = "validateFile"
  /\ request \in StoredRequests
  /\ reqFile = IF request.kind = "file"
                 THEN << [originalname |-> request.originalname,
                          mimetype |-> request.mimetype,
                          size |-> request.body.size, path |-> StoredPath(request)] >>
                 ELSE <<>>
  /\ uploads = IF request.kind = "file"
                 THEN { [path |-> StoredPath(request), size |-> request.body.size,
                         bytes |-> request.body.bytes, mtime |-> now] }
                 ELSE {}
  /\ converted = {}
  /\ inputFilePath = NullPath
  /\ outputFilePath = NullPath
  /\ pdfBuffer = NoBuffer
  /\ text = <<>>
  /\ tryDepth = 0
  /\ headers = NoHeaders
  /\ headersSent = FALSE
  /\ responses = <<>>
  /\ timers = {}
  /\ log = [InitLog EXCEPT !.nextBy = {"uploadMiddleware"}]

NextValidate == validateFile

SpecValidate == InitValidate /\ [][NextValidate]_vars


\* ------------------------------------------------- the Converter component
ResetDelayMs == 3000
UiMaxSize == 10 * 1024 * 1024

\* the files the user picks or drops
UiFiles ==
  { [name |-> Str_a_docx, size |-> 1024],
    [name |-> Str_a_doc, size |-> 1024],
    [name |-> Str_my_DOCX, size |-> 0],
    [name |-> Str_a_txt, size |-> 1024],
    [name |-> Str_a_docx, size |-> 10485761] }

\* file.name.split('.').pop()
splitPop(name) ==
  LET dots == { i \in DOMAIN name : name[i] = "." }
  IN IF dots = {} THEN name
     ELSE SubSeq(name, (CHOOSE i \in dots : \A j \in dots : j <= i) + 1, Len(name))

\* handleFileSelect(file): the state of the component afterwards
handleFileSelect(file, event) ==
  LET fileExtension == <<".">> \o toLowerCase(splitPop(file.name))
  IN
  IF fileExtension \notin {DocExt, DocxExt}
    THEN [ui EXCEPT !.toast = "Please select a valid Word document (.doc or .docx)",
                    !.event = event]
  ELSE IF file.size > UiMaxSize
    THEN [ui EXCEPT !.toast = "File size must be less than 10MB", !.event = event]
  ELSE [ui EXCEPT !.selectedFile = file, !.conversionStatus = "null",
                  !.toast = "File selected successfully!", !.event = event]

InitUi ==
  /\ env \in { e \in Envs : e.NODE_ENV = "production" }
  /\ now = 0
  /\ ticks = 0
  /\ pc = "browser"
  /\ request = NoRequest
  /\ reqFile = <<>>
  /\ uploads = {}
  /\ converted = {}
  /\ inputFilePath = NullPath
  /\ outputFilePath = NullPath
  /\ pdfBuffer = NoBuffer
  /\ text = <<>>
  /\ tryDepth = 0
  /\ headers = NoHeaders
  /\ headersSent = FALSE
  /\ responses = <<>>
  /\ timers = {}
  /\ log = InitLog
  /\ suspended = <<>>
  /\ ui = NoUi

\* <input type="file" onChange={handleFileChange} disabled={isConverting}>
handleFileChange ==
  /\ ~ui.isConverting
  /\ \E file \in UiFiles : ui' = handleFileSelect(file, "handleFileChange")
  /\ UNCHANGED <<env, now, ticks, pc, request, reqFile, uploads, converted, inputFilePath,
                 outputFilePath, pdfBuffer, text, tryDepth, headers, headersSent,
                 responses, timers, log, suspended>>

\* onDrop={handleDrop}: the drop zone stays active during a conversion
handleDrop ==
  /\ \E file \in UiFiles : ui' = handleFileSelect(file, "handleDrop")
  /\ UNCHANGED <<env, now, ticks, pc, request, reqFile, uploads, converted, inputFilePath,
                 outputFilePath, pdfBuffer, text, tryDepth, headers, headersSent,
                 responses, timers, log, suspended>>

\* the Convert button (disabled={!selectedFile || isConverting}): handleConvert
\* up to await convertWordToPdf(selectedFile)
handleConvert ==
  /\ ui.selectedFile # NoFile
  /\ ~ui.isConverting
  /\ ui' = [ui EXCEPT !.isConverting = TRUE, !.conversionStatus = "null",
                      !.pending = <<ui.selectedFile>>,
                      !.toast = "Converting your document...", !.event = "handleConvert"]
  /\ UNCHANGED <<env, now, ticks, pc, request, reqFile, uploads, converted, inputFilePath,
                 outputFilePath, pdfBuffer, text, tryDepth, headers, headersSent,
                 responses, timers, log, suspended>>

\* the awaited call settles: the rest of the try block or the catch block,
\* then finally
convertSettles ==
  /\ ui.pending # <<>>
  /\ \/ ui' = [ui EXCEPT !.conversionStatus = "success",
                         !.resetTimers = @ \cup { [deadline |-> now + ResetDelayMs,
                                                   file |-> ui.pending[1]] },
                         !.isConverting = FALSE, !.pending = <<>>,
                         !.toast = "Document converted successfully!",
                         !.event = "resolved"]
     \/ ui' = [ui EXCEPT !.conversionStatus = "error",
                         !.isConverting = FALSE, !.pending = <<>>,
                         !.toast = "Failed to convert document. Please try again.",
                         !.event = "rejected"]
  /\ UNCHANGED <<env, now, ticks, pc, request, reqFile, uploads, converted, inputFilePath,
                 outputFilePath, pdfBuffer, text, tryDepth, headers, headersSent,
                 responses, timers, log, suspended>>

\* the setTimeout callback of handleConvert
resetTimeout ==
  /\ \E t \in ui.resetTimers :
       /\ now >= t.deadline
       /\ ui' = [ui EXCEPT !.selectedFile = NoFile, !.conversionStatus = "null",
                           !.resetTimers = @ \ {t}, !.event = "resetTimeout"]
  /\ UNCHANGED <<env, now, ticks, pc, request, reqFile, uploads, converted, inputFilePath,
                 outputFilePath, pdfBuffer, text, tryDepth, headers, headersSent,
                 responses, timers, log, suspended>>

\* the remove button, shown for a selected file and disabled during a conversion
resetFile ==
  /\ ui.selectedFile # NoFile
  /\ ~ui.isConverting
  /\ ui' = [ui EXCEPT !.selectedFile = NoFile, !.conversionStatus = "null",
                      !.event = "resetFile"]
  /\ UNCHANGED <<env, now, ticks, pc, request, reqFile, uploads, converted, inputFilePath,
                 outputFilePath, pdfBuffer, text, tryDepth, headers, headersSent,
                 responses, timers, log, suspended>>

\* time passes in the browser; a due timer runs before the clock moves on
UiTickSteps == {1, ResetDelayMs}

TickUi ==
  /\ ticks < MaxTicks
  /\ \E d \in UiTickSteps :
       /\ \A t \in ui.resetTimers : now + d <= t.deadline
       /\ now' = now + d
  /\ ticks' = ticks + 1
  /\ UNCHANGED <<env, pc, request, reqFile, uploads, converted, inputFilePath,
                 outputFilePath, pdfBuffer, text, tryDepth, headers, headersSent,
                 responses, timers, log, suspended, ui>>

NextUi ==
  \/ handleFileChange
  \/ handleDrop
  \/ handleConvert
  \/ convertSettles
  \/ resetTimeout
  \/ resetFile
  \/ TickUi

SpecUi == InitUi /\ [][NextUi]_vars


\* ------------------------------------------------------ two requests at once
\* what a request keeps while another one runs: its position in the route and
\* the locals of its handlers
RunningJob ==
  [pc |-> pc, request |-> request, reqFile |-> reqFile, inputFilePath |-> inputFilePath,
   outputFilePath |-> outputFilePath, pdfBuffer |-> pdfBuffer, text |-> text,
   tryDepth |-> tryDepth, headers |-> headers, headersSent |-> headersSent,
   responses |-> responses, log |-> log]

\* a request that has not been received yet
NewJob ==
  [pc |-> "uploadMiddleware", request |-> NoRequest, reqFile |-> <<>>,
   inputFilePath |-> NullPath, outputFilePath |-> NullPath, pdfBuffer |-> NoBuffer,
   text |-> <<>>, tryDepth |-> 0, headers |-> NoHeaders, headersSent |-> FALSE,
   responses |-> <<>>, log |-> InitLog]

InitJobs ==
  /\ env \in { e \in Envs : e.NODE_ENV = "production" }
  /\ now = 0
  /\ ticks = 0
  /\ pc = "uploadMiddleware"
  /\ request = NoRequest
  /\ reqFile = <<>>
  /\ uploads = {}
  /\ converted = {}
  /\ inputFilePath = NullPath
  /\ outputFilePath = NullPath
  /\ pdfBuffer = NoBuffer
  /\ text = <<>>
  /\ tryDepth = 0
  /\ headers = NoHeaders
  /\ headersSent = FALSE
  /\ responses = <<>>
  /\ timers = {}
  /\ log = InitLog
  /\ suspended = <<NewJob>>
  /\ ui = NoUi

\* the uploads the two requests carry: names with the same base
JobRequests ==
  { [kind |-> "file", originalname |-> Str_a_docx, mimetype |-> MimeDocx,
     body |-> [size |-> 1024, bytes |-> <<80, 75, 3, 4, 20>>]],
    [kind |-> "file", originalname |-> Str_a_doc, mimetype |-> MimeDoc,
     body |-> [size |-> 1024, bytes |-> <<208, 207, 17, 224, 161>>]] }

\* the clock moves by the cleanup delay
JobTickSteps == {CleanupDelayMs}

TickJobs == Elapse(JobTickSteps)

uploadJob == uploadSingle(JobRequests, RandomSuffixes)

\* the event loop runs one callback at a time: a request gives way to the
\* other one where it awaits (or before it is received, or when it is over);
\* the chain upload callback -> validateFile -> convertWordToPdf up to its
\* first await runs without a break
YieldPoints == AwaitPoints \cup {"uploadMiddleware"}

resumeOther ==
  /\ pc \in YieldPoints
  /\ suspended # <<>>
  /\ LET job == Head(suspended)
     IN /\ pc' = job.pc
        /\ request' = job.request
        /\ reqFile' = job.reqFile
        /\ inputFilePath' = job.inputFilePath
        /\ outputFilePath' = job.outputFilePath
        /\ pdfBuffer' = job.pdfBuffer
        /\ text' = job.text
        /\ tryDepth' = job.tryDepth
        /\ headers' = job.headers
        /\ headersSent' = job.headersSent
        /\ responses' = job.responses
        /\ log' = job.log
  /\ suspended' = Append(Tail(suspended), RunningJob)
  /\ UNCHANGED <<env, now, ticks, uploads, converted, timers, ui>>

\* the outcomes of the library calls considered for the two requests: the
\* extraction returns text or nothing, the documents are built, the write
\* succeeds or throws, the transfer succeeds
JobOutcomes ==
  /\ log.extract \in {"none", "value"}
  /\ text \in {<<>>, <<"h", "i", "\n", "b">>}
  /\ "layout_exception" \notin log.soft
  /\ log.fallbackThrows = 0
  /\ pdfBuffer.length \in {0, 583}
  /\ log.write \in {"none", "ok", "throws"}
  /\ log.download \in {"none", "ok"}

extractJob == extractRawText /\ JobOutcomes'

layoutJob == createPdfFromText /\ JobOutcomes'

fallbackJob == createFallbackPdf /\ JobOutcomes'

writeJob == writeFileSync /\ JobOutcomes'

downloadJob == download /\ JobOutcomes'

NextJobs ==
  \/ uploadJob
  \/ validateFile
  \/ convertWordToPdf
  \/ extractJob
  \/ layoutJob
  \/ fallbackJob
  \/ writeJob
  \/ downloadJob
  \/ cleanupTimer
  \/ TickJobs
  \/ resumeOther

SpecJobs == InitJobs /\ [][NextJobs]_vars


\* ---------------------------------------------------------------- properties
\* The inputs, classified by hand
AllowedNames == {Str_a_docx, Str_my_DOCX, Str_a_doc}
DocxNames == {Str_a_docx, Str_my_DOCX}
AllowedMimes == {MimeDoc, MimeDocx}

\* the original name without its extension
OriginalBase(name) ==
  IF name = Str_my_DOCX THEN <<"m", "y", " ", "f">>
  ELSE IF name \in {Str_a_docx, Str_a_doc, Str_a_txt} THEN <<"a">>
  ELSE name

IsFileUpload == request.kind = "file"
MaxFileSize == IF env.MAX_FILE_SIZE = <<"1", "0", "2", "4">> THEN 1024 ELSE 10485760
PassedHardValidation == "validateFile" \in log.nextBy
JsonResponses == { i \in DOMAIN responses : responses[i].kind = "json" }
PdfResponses == { i \in DOMAIN responses : responses[i].kind = "pdf" }
LastResponse == responses[Len(responses)]
Finished == pc = "done"
InputPresent == reqFile # <<>> /\ \E f \in uploads : f.path = reqFile[1].path
OutputPresent == \E f \in converted : f.path = outputFilePath

\* one of the three soft conditions has occurred
SoftConditionMet ==
  \/ log.signature = "invalid"
  \/ log.extract = "threw"
  \/ log.extract = "value" /\ \A i \in DOMAIN text : text[i] \in {" ", "\n", "\t", "\r"}

DeliveredFallback ==
  /\ Len(responses) = 1
  /\ responses[1].kind = "pdf"
  /\ responses[1].status = 200
  /\ responses[1].buffer.kind = "fallback"
  /\ responses[1].buffer.originalName = request.originalname

\* C1 as stated: after hard validation, a soft condition ends in a delivered
\* fallback document and no error response, provided fallback generation and
\* the output write succeed.
C1_Original ==
  (PassedHardValidation /\ SoftConditionMet /\ log.fallbackOk /\ log.write = "ok" /\ Finished)
    => DeliveredFallback

\* C1 (amended): after hard validation, each soft condition (bad zip signature,
\* extraction exception, empty or whitespace-only text) is never answered with
\* an error while the job runs, never reaches the text layout, and ends with
\* the fallback document as the only response, provided fallback generation and
\* the output write succeed and the delivery does not fail before the response
\* headers are sent.
C1_SoftConditionsDeliverFallback ==
  (PassedHardValidation /\ SoftConditionMet) =>
    /\ log.layoutCalls = 0
    /\ pdfBuffer.kind # "text"
    /\ ~Finished => responses = <<>>
    /\ (Finished /\ log.fallbackOk /\ log.write = "ok"
          /\ log.download # "error_before_headers") => DeliveredFallback

C1_Witness ==
  /\ Finished
  /\ PassedHardValidation
  /\ log.extract = "value"
  /\ text = <<" ", "\n">>
  /\ log.download = "ok"
  /\ DeliveredFallback

\* C2 as stated: a zero-byte upload is answered with EMPTY_FILE whatever its
\* extension and declared MIME type are.
C2_Original ==
  (IsFileUpload /\ request.body.size = 0 /\ Finished) =>
    /\ Len(responses) = 1
    /\ responses[1].kind = "json"
    /\ responses[1].body.error = "EMPTY_FILE"

\* C2 (amended): a zero-byte upload always yields a hard failure (one 400
\* response, no conversion); its code is EMPTY_FILE when the extension and the
\* declared MIME type are allowed, VALIDATION_ERROR (from the upload filter)
\* when the extension is not allowed, and INVALID_MIME_TYPE when the extension
\* is allowed and the MIME type is not.
C2_ZeroByteHardFailure ==
  (IsFileUpload /\ request.body.size = 0) =>
    /\ ~log.convertInvoked
    /\ pc \notin {"convertWordToPdf", "extractRawText", "createPdfFromText",
                  "createFallbackPdf", "writeFileSync", "download"}
    /\ Finished =>
         /\ Len(responses) = 1
         /\ responses[1].kind = "json"
         /\ responses[1].status = 400
         /\ responses[1].body.success = FALSE
         /\ responses[1].body.error =
              (IF request.originalname \notin AllowedNames THEN "VALIDATION_ERROR"
               ELSE IF request.mimetype \notin AllowedMimes THEN "INVALID_MIME_TYPE"
               ELSE "EMPTY_FILE")

C2_Witness ==
  /\ Finished
  /\ IsFileUpload
  /\ request.body.size = 0
  /\ request.originalname = Str_my_DOCX
  /\ request.mimetype = MimeDocx
  /\ LastResponse.body.error = "EMPTY_FILE"
  /\ uploads = {}

\* C3: an upload larger than the configured ceiling is answered with
\* FILE_TOO_LARGE, and text extraction is never attempted for it.
C3_OversizeIsFileTooLarge ==
  (IsFileUpload /\ request.body.size > MaxFileSize) =>
    /\ log.extractCalls = 0
    /\ Finished =>
         /\ Len(responses) = 1
         /\ responses[1].kind = "json"
         /\ responses[1].body.error = "FILE_TOO_LARGE"

\* the inputs that are hard validation failures
HardFailureInput ==
  /\ IsFileUpload
  /\ \/ request.originalname \notin AllowedNames
     \/ request.mimetype \notin AllowedMimes
     \/ request.body.size = 0
     \/ request.body.size > MaxFileSize

NoConversionWork ==
  /\ ~log.convertInvoked
  /\ log.signature = "unchecked"
  /\ log.extractCalls = 0
  /\ log.layoutCalls = 0
  /\ log.fallbackCalls = 0
  /\ converted = {}

\* C4: a hard validation failure is reported before any conversion work: a
\* request with a disallowed extension, a disallowed MIME type, a zero-byte or
\* an oversize file never reaches the conversion handler, and once the upload
\* or validation middleware has sent an error response, no signature check,
\* extraction or fallback generation has happened or happens for the request.
C4_HardFailureBeforeConversion ==
  /\ HardFailureInput => NoConversionWork
  /\ (HardFailureInput /\ Finished) =>
        /\ Len(responses) = 1
        /\ responses[1].by \in {"uploadMiddleware", "validateFile"}
        /\ responses[1].status = 400
  /\ (\E i \in DOMAIN responses : responses[i].by \in {"uploadMiddleware", "validateFile"})
        => (NoConversionWork /\ Finished)

C4_Witness ==
  /\ Finished
  /\ IsFileUpload
  /\ request.originalname = Str_a_docx
  /\ request.mimetype = "text/plain"
  /\ request.body.size = 1024
  /\ responses[1].by = "validateFile"
  /\ responses[1].body.error = "INVALID_MIME_TYPE"
  /\ ticks = MaxTicks

\* the leading bytes are one of the three zip magic numbers
HasZipMagic(b) ==
  /\ Len(b) >= 4
  /\ b[1] = 80
  /\ b[2] = 75
  /\ \/ b[3] = 3 /\ b[4] = 4
     \/ b[3] = 5 /\ b[4] = 6
     \/ b[3] = 7 /\ b[4] = 8

\* C5: for a .docx upload with either accepted MIME type the signature check
\* passes exactly when the file is readable and its first four bytes are
\* 50 4B 03 04, 50 4B 05 06 or 50 4B 07 08; a failed check leads to the
\* fallback generator without extraction, never to a hard (4xx) error.
C5_ZipSignature ==
  /\ (PassedHardValidation /\ log.convertInvoked /\ request.originalname \in DocxNames) =>
        /\ log.signature # "unchecked"
        /\ log.signature = "valid" <=> (log.readable /\ HasZipMagic(request.body.bytes))
  /\ log.signature = "invalid" =>
        /\ log.extractCalls = 0
        /\ log.fallbackCalls >= 1
        /\ \A i \in DOMAIN responses : responses[i].status # 400
  /\ request.originalname \notin DocxNames => log.signature = "unchecked"

C5_Witness ==
  /\ Finished
  /\ request.originalname = Str_a_docx
  /\ request.mimetype = MimeDoc
  /\ request.body.bytes = <<80, 75, 3>>
  /\ log.readable
  /\ log.signature = "invalid"
  /\ DeliveredFallback

\* text helpers of the properties
EndsWith(str, suffix) ==
  Len(str) >= Len(suffix) /\ SubSeq(str, Len(str) - Len(suffix) + 1, Len(str)) = suffix

StartsWith(str, prefix) ==
  Len(str) >= Len(prefix) /\ SubSeq(str, 1, Len(prefix)) = prefix

DotPdf == <<".", "p", "d", "f">>

\* C6 as stated: the delivered response is application/pdf, carries the length
\* of the written artifact, and suggests the filename <original-basename>.pdf.
C6_Original ==
  \A i \in PdfResponses :
    /\ responses[i].contentType = "application/pdf"
    /\ responses[i].contentLength = responses[i].buffer.length
    /\ responses[i].filename = OriginalBase(request.originalname) \o DotPdf

\* the original basename with every character outside a-z A-Z 0-9 - _ replaced
SafeBase(name) ==
  IF name = Str_my_DOCX THEN <<"m", "y", "_", "f">> ELSE OriginalBase(name)

\* C6 (amended): every delivered response has content type application/pdf, a
\* content length equal to the size of the written artifact, and as suggested
\* filename the generated name of the artifact: the original basename with the
\* characters outside [a-zA-Z0-9-_] replaced by '_', then '_<timestamp>_<random
\* integer>', then the extension .pdf (so never just <original-basename>.pdf).
C6_DeliveryHeaders ==
  \A i \in PdfResponses :
    LET r == responses[i]
        stem == SubSeq(r.filename, 1, Len(r.filename) - 4)
        suffix == SubSeq(stem, Len(SafeBase(request.originalname)) + 1, Len(stem))
    IN
    /\ r.contentType = "application/pdf"
    /\ r.contentLength = r.buffer.length
    /\ (OutputPresent =>
          \E f \in converted : f.path = outputFilePath /\ f.size = r.contentLength)
    /\ r.filename = outputFilePath.name
    /\ EndsWith(r.filename, DotPdf)
    /\ StartsWith(r.filename, SafeBase(request.originalname) \o <<"_">>)
    /\ Len(suffix) >= 4
    /\ suffix[1] = "_"
    /\ \A k \in DOMAIN suffix : suffix[k] \in Range(DigitChars) \cup {"_"}
    /\ Cardinality({ k \in DOMAIN suffix : suffix[k] = "_" }) = 2
    /\ suffix[Len(suffix)] # "_"

C6_Witness ==
  /\ Finished
  /\ log.download = "ok"
  /\ request.originalname = Str_my_DOCX
  /\ Len(responses) = 1
  /\ responses[1].kind = "pdf"
  /\ responses[1].filename =
       <<"m", "y", "_", "f", "_", "0", "_", "1", "0", "0", "0", "0", "0", "0", "0", "0", "0",
         ".", "p", "d", "f">>
  /\ responses[1].contentLength = 1187

\* C7: every error response has the shape {success: false, message, error}
\* with error one of the fixed reason codes.
C7_ErrorShape ==
  \A i \in JsonResponses :
    /\ DOMAIN responses[i].body = {"success", "message", "error"}
    /\ responses[i].body.success = FALSE
    /\ responses[i].body.error \in ReasonCodes

\* the delivery attempt of the job has completed (the download callback ran)
DeliveryAttempted == log.download # "none"

\* C8: after the delivery attempt completes, with or without an error, the
\* deferred deletion is scheduled, and once the 5 s delay has elapsed both the
\* input and the output artifact are absent.
C8_DeferredCleanupAfterDelivery ==
  DeliveryAttempted =>
    /\ (timers # {} \/ \E k \in DOMAIN log.deletions : log.deletions[k].by = "setTimeout")
    /\ now > log.callbackAt + 5000 => (~InputPresent /\ ~OutputPresent)

\* C9 as stated: a delivery error is only logged and never turns the job into
\* a failure response.
C9_Original ==
  log.download \in {"error_after_headers", "error_before_headers"} => JsonResponses = {}

\* C9 (amended): a delivery error that occurs after the response headers were
\* sent is only logged, and the PDF response stays the only response; a
\* delivery error that occurs before the headers were sent is answered with a
\* 500 JSON failure (success false, a message, no reason code).
C9_DeliveryErrorOutcome ==
  /\ log.download = "error_after_headers" =>
        /\ JsonResponses = {}
        /\ Len(responses) = 1
        /\ responses[1].kind = "pdf"
  /\ log.download = "error_before_headers" =>
        /\ Len(responses) = 1
        /\ responses[1].kind = "json"
        /\ responses[1].status = 500
        /\ responses[1].by = "download"
        /\ DOMAIN responses[1].body = {"success", "message"}

C9_Witness ==
  /\ log.download = "error_after_headers"
  /\ Len(responses) = 1
  /\ ~responses[1].complete
  /\ timers = {}
  /\ now > log.callbackAt + 5000

InputDeletions ==
  { k \in DOMAIN log.deletions : log.deletions[k].path.dir = "uploads" }

\* C10 as stated: the input is deleted only by the deferred cleanup, after the
\* job's terminal state and the 5 s grace delay.
C10_Original ==
  \A k \in InputDeletions :
    /\ log.deletions[k].by = "setTimeout"
    /\ DeliveryAttempted
    /\ log.deletions[k].at >= log.callbackAt + 5000

\* C10 (amended): the input of a job that reaches delivery stays on disk
\* throughout the conversion and the transfer and is deleted only by the
\* deferred cleanup, no earlier than 5 s after the download callback; the only
\* earlier deletions are the immediate ones of a failing job: validateFile
\* deletes the input before it sends a 400, and the catch block of the
\* conversion handler deletes it before it sends the 500.
C10_InputDeletion ==
  /\ Cardinality(InputDeletions) <= 1
  /\ \A k \in InputDeletions :
       LET d == log.deletions[k] IN
       /\ d.path = reqFile[1].path
       /\ d.by \in {"setTimeout", "validateFile", "catch"}
       /\ d.by = "setTimeout" =>
            /\ DeliveryAttempted
            /\ log.download # "error_before_headers"
            /\ d.at >= log.callbackAt + 5000
       /\ d.by = "validateFile" =>
            /\ Finished /\ ~log.convertInvoked /\ ~DeliveryAttempted
            /\ LastResponse.by = "validateFile" /\ LastResponse.status = 400
       /\ d.by = "catch" =>
            /\ Finished /\ ~DeliveryAttempted
            /\ LastResponse.by = "convertWordToPdf" /\ LastResponse.status = 500
  /\ pc \in {"convertWordToPdf", "extractRawText", "createPdfFromText", "createFallbackPdf",
             "writeFileSync", "download"} => InputPresent
  /\ (DeliveryAttempted /\ now < log.callbackAt + 5000) => InputPresent

C10_Witness ==
  /\ \E k \in InputDeletions :
        /\ log.deletions[k].by = "setTimeout"
        /\ log.deletions[k].at = log.callbackAt + 5000
  /\ log.download = "ok"
  /\ ~InputPresent
  /\ ~OutputPresent

\* age of a swept file when it was unlinked
AgeWhenSwept(s) == s.at - s.mtime

RetentionMs == 24 * 3600 * 1000

JobInFlight == pc \in {"extractRawText", "createPdfFromText", "createFallbackPdf", "download"}

\* C11: the periodic sweep never unlinks a file, in either directory, whose
\* age (now minus mtime) is at most the 24 h retention threshold, whatever
\* the state of the request it interleaves with; a file of the job in flight
\* that is younger than the threshold is therefore never swept.
C11_SweepSparesYoungFiles ==
  /\ \A s \in log.swept : AgeWhenSwept(s) > RetentionMs
  /\ \A s \in log.swept :
       s.path \in {inputFilePath, outputFilePath} => s.at - SweepStart > RetentionMs

\* the sweep has fired while a job awaits extraction: the leftover past the
\* threshold is gone, the leftover exactly at the threshold and the job's
\* fresh input are still there
C11_Witness ==
  /\ JobInFlight
  /\ \E s \in log.swept : s.path.name = Str_old_pdf /\ s.at = now
  /\ \E f \in uploads : f.path.name = Str_kept_docx /\ now - f.mtime = RetentionMs
  /\ existsSync(uploads, inputFilePath)

EndedWithFailure ==
  /\ Finished
  /\ Len(responses) = 1
  /\ responses[1].kind = "json"
  /\ responses[1].status = 500
  /\ responses[1].body.success = FALSE

\* C12: a throw of the fallback generator is fatal: the generator is not
\* called again for the job, and the job ends with an error response.
C12_FallbackFailureIsFatal ==
  log.fallbackThrows > 0 =>
    /\ log.fallbackCalls = 1
    /\ pc = "done"
    /\ EndedWithFailure

LayoutFailed == "layout_exception" \in log.soft

\* C13 as stated: an exception of the layout aborts the job, which ends with
\* an error response; the exception is not absorbed.
C13_Original ==
  LayoutFailed =>
    /\ log.fallbackCalls = 0
    /\ pc = "done"
    /\ EndedWithFailure

\* C13 (amended): an exception of the layout is caught inside the handler and
\* answered by a call of the fallback generator; no error is sent while the job
\* runs, the text document is never written, and the job ends with the fallback
\* document as its only response when the fallback generation and the output
\* write succeed and the delivery does not fail before the headers are sent.
C13_LayoutFailureFallsBack ==
  LayoutFailed =>
    /\ log.fallbackCalls >= 1
    /\ pdfBuffer.kind # "text"
    /\ ~Finished => responses = <<>>
    /\ (Finished /\ log.fallbackOk /\ log.write = "ok"
          /\ log.download # "error_before_headers") => DeliveredFallback

C13_Witness ==
  /\ Finished
  /\ LayoutFailed
  /\ log.extract = "value"
  /\ text = <<"h", "i", "\n", "b">>
  /\ log.layoutCalls = 1
  /\ log.fallbackCalls = 1
  /\ log.download = "ok"
  /\ DeliveredFallback

\* C14: before the delivery starts the written output is checked to be there
\* and to be non-empty; a missing or zero-length output ends the job with an
\* error and nothing is delivered.
C14_OutputVerified ==
  log.write \in {"missing", "empty"} =>
    /\ pc = "done"
    /\ log.download = "none"
    /\ PdfResponses = {}
    /\ EndedWithFailure

\* the responses sent by the catch block of the handler
FatalResponses ==
  { i \in DOMAIN responses :
      /\ responses[i].kind = "json"
      /\ responses[i].by = "convertWordToPdf"
      /\ responses[i].status = 500 }

FatalFailure ==
  \/ log.write \in {"throws", "throws_partial", "missing"}
  \/ Finished /\ log.fallbackThrows > 0 /\ ~log.fallbackOk

StackAttached(r) == "error" \in DOMAIN r.body

\* C15 as stated: on every fatal failure the input and the output are absent
\* when the error response is sent, and the stack is attached to it whenever
\* NODE_ENV is not 'production'.
C15_Original ==
  /\ FatalFailure => (FatalResponses # {} /\ ~InputPresent /\ ~OutputPresent)
  /\ \A i \in FatalResponses : StackAttached(responses[i]) <=> env.NODE_ENV # "production"

\* C15 (amended): on every fatal failure (the last call of the fallback
\* generator throws, the output write throws, or the output is missing after
\* the write) the input and the output are both absent when the 500 response
\* is sent, and the stack is attached to that response exactly when NODE_ENV
\* is 'development'; it is omitted for 'production' and for any other or no
\* value.
C15_FatalCleanupAndDetail ==
  /\ FatalFailure =>
       /\ FatalResponses = {1}
       /\ Len(responses) = 1
       /\ ~InputPresent
       /\ ~OutputPresent
       /\ timers = {}
  /\ \A i \in FatalResponses :
       /\ FatalFailure
       /\ StackAttached(responses[i]) <=> env.NODE_ENV = "development"
       /\ StackAttached(responses[i]) => responses[i].body.error = "error.stack"

\* the write threw after creating the file, NODE_ENV is not set: both files
\* were unlinked by the catch block and the response carries no stack
C15_Witness ==
  /\ log.write = "throws_partial"
  /\ env.NODE_ENV = ""
  /\ FatalResponses = {1}
  /\ ~StackAttached(responses[1])
  /\ ~InputPresent
  /\ ~OutputPresent
  /\ \E k \in DOMAIN log.deletions :
       log.deletions[k].by = "catch" /\ log.deletions[k].path = outputFilePath
  /\ \E k \in DOMAIN log.deletions :
       log.deletions[k].by = "catch" /\ log.deletions[k].path = inputFilePath

\* fs.writeFileSync created the file at outputFilePath
OutputWritten == log.write \in {"ok", "empty", "throws_partial"}

JobFailed == Finished /\ JsonResponses # {}

JobDelivered == PdfResponses # {}

\* C17 as stated: an output file has been written for a job exactly when the
\* job is delivered: a job that ends failed never had one written, a delivered
\* job had one, written once.
C17_Original ==
  /\ JobFailed => ~OutputWritten
  /\ JobDelivered => (OutputWritten /\ log.writes = 1)
  /\ (Finished /\ OutputWritten) => JobDelivered

\* C17 (amended): fs.writeFileSync is called at most once per job; no output
\* file exists before that call; every job that delivers a PDF had its output
\* written in full by that one call before the delivery started. A job that
\* ends with an error response may have had an output file written: when the
\* write throws after creating the file, the catch block removes it before
\* responding; when the delivery fails before the response headers are sent,
\* the written file is still there when the 500 response is sent.
C17_OutputWrittenOnce ==
  /\ log.writes <= 1
  /\ log.writes = 0 => (log.write = "none" /\ converted = {})
  /\ log.download # "none" => (log.write \in {"ok", "empty"} /\ log.writes = 1)
  /\ JobDelivered => (log.write \in {"ok", "empty"} /\ log.writes = 1)
  /\ (JobFailed /\ OutputWritten) =>
       \/ log.write = "throws_partial" /\ ~OutputPresent /\ FatalResponses = {1}
       \/ log.download = "error_before_headers" /\ ~JobDelivered
  /\ (JobFailed /\ OutputPresent) => log.download = "error_before_headers"

\* the delivery failed before the headers were sent: the job ended with the
\* 500 response although its output had been written, and the file is there
C17_Witness ==
  /\ JobFailed
  /\ log.write = "ok"
  /\ log.writes = 1
  /\ log.download = "error_before_headers"
  /\ ~JobDelivered
  /\ OutputPresent
  /\ \E f \in converted : f.path = outputFilePath /\ f.size = pdfBuffer.length

Saved == pc = "saved"

\* the number of lines of the text handed to the layout, and the absence of
\* a line longer than 80 characters (any 81 consecutive characters of the
\* text contain a line break)
LinesOfText == Len(pdfBuffer.lines)

NoLineOver80 ==
  \A i \in 1..(Len(text) - 80) : \E j \in i..(i + 80) : text[j] = "\n"

\* C19: a text of N lines, 1 <= N <= 40, none longer than 80 characters, is
\* laid out on exactly one page (every line is drawn on page 1, and no second
\* page is added at any point of the layout).
C19_OnePage ==
  (LinesOfText \in 1..40 /\ NoLineOver80) =>
    /\ pdfBuffer.pages = 1
    /\ \A k \in DOMAIN pdfBuffer.placed : pdfBuffer.placed[k].page = 1
    /\ Saved => Len(pdfBuffer.placed) = LinesOfText

\* forty lines of eighty characters, saved on one page
C19_Witness ==
  /\ Saved
  /\ LinesOfText = 40
  /\ Len(text) = 40 * 80 + 39
  /\ NoLineOver80
  /\ pdfBuffer.pages = 1
  /\ Len(pdfBuffer.placed) = 40
  /\ pdfBuffer.placed[40].page = 1
  /\ Len(pdfBuffer.placed[40].text) = 80

\* the drawn segments that come from input line i, in drawing order
PlacedIndexes(i) == { k \in DOMAIN pdfBuffer.placed : pdfBuffer.placed[k].from = i }

PlacedFrom(i) ==
  LET idx == PlacedIndexes(i)
      lo == CHOOSE k \in idx : \A m \in idx : k <= m
  IN [ n \in 1..Cardinality(idx) |-> pdfBuffer.placed[lo + n - 1] ]

RECURSIVE Concat(_)
Concat(segments) ==
  IF segments = <<>> THEN <<>> ELSE Head(segments).text \o Concat(Tail(segments))

\* C20: wrapping counts characters only: a line of exactly 80 characters is
\* drawn as one unsplit line; a line of k*80 + 1 characters (k >= 1) is drawn
\* as k + 1 segments, the first k of 80 characters and the last of 1, cut at
\* the offsets 80, 160, ... whatever the characters there are.
C20_WrapByCharacterCount ==
  Saved =>
    \A i \in DOMAIN pdfBuffer.lines :
      LET line == pdfBuffer.lines[i]
          segments == PlacedFrom(i)
          k == Len(line) \div 80
      IN
      /\ \A m \in PlacedIndexes(i), n \in PlacedIndexes(i) : m..n \subseteq PlacedIndexes(i)
      /\ Len(line) = 80 => (Len(segments) = 1 /\ segments[1].text = line)
      /\ (Len(line) > 80 /\ Len(line) % 80 = 1) =>
           /\ Len(segments) = k + 1
           /\ \A j \in 1..k :
                /\ Len(segments[j].text) = 80
                /\ segments[j].text = SubSeq(line, (j - 1) * 80 + 1, j * 80)
           /\ segments[k + 1].text = <<line[Len(line)]>>
           /\ Concat(segments) = line

\* a line of 161 characters: three segments of 80, 80 and 1 characters, the
\* first cut falling inside a word
C20_Witness ==
  /\ Saved
  /\ Len(text) = 161
  /\ LinesOfText = 1
  /\ Len(pdfBuffer.placed) = 3
  /\ Len(pdfBuffer.placed[1].text) = 80
  /\ Len(pdfBuffer.placed[2].text) = 80
  /\ Len(pdfBuffer.placed[3].text) = 1
  /\ pdfBuffer.placed[1].text[80] # " "
  /\ pdfBuffer.placed[2].text[1] # " "

\* the status of the job, read off the position of the handler chain, the
\* responses sent and the pending timer
Status ==
  IF pc = "uploadMiddleware" THEN "pending"
  ELSE IF pc = "validateFile" THEN "validating"
  ELSE IF pc \in {"convertWordToPdf", "extractRawText"} THEN "extracting"
  ELSE IF pc = "createFallbackPdf" THEN "falling_back"
  ELSE IF pc = "createPdfFromText" THEN "laying_out"
  ELSE IF pc \in {"writeFileSync", "download"} THEN "assembling"
  ELSE IF JsonResponses # {} /\ PdfResponses # {} THEN "delivered_and_failed"
  ELSE IF JsonResponses # {} THEN "failed"
  ELSE IF PdfResponses = {} THEN "unanswered"
  ELSE IF timers # {} THEN "delivered"
  ELSE "cleaned"

Rank ==
  [ pending |-> 0, validating |-> 1, extracting |-> 2, falling_back |-> 3,
    laying_out |-> 4, assembling |-> 5, delivered |-> 6, cleaned |-> 7, failed |-> 8,
    unanswered |-> 9, delivered_and_failed |-> 9 ]

Terminal == Status \in {"delivered", "cleaned", "failed"}

StatusKept ==
  /\ Status \in {"delivered", "cleaned"} => Status' \in {"delivered", "cleaned"}
  /\ Status = "failed" => Status' = "failed"

\* C16 as stated: the status only moves forward along pending, validating,
\* extracting, falling_back, laying_out, assembling, delivered, cleaned, or to
\* failed from a state before delivered; never failed after delivered, never
\* both; every job reaches a terminal state.
C16_Original ==
  /\ [][Rank[Status'] >= Rank[Status] /\ StatusKept]_vars
  /\ [](Status \notin {"unanswered", "delivered_and_failed"})
  /\ <>Terminal

\* C16 (amended): the status moves forward along pending, validating,
\* extracting, falling_back, laying_out, assembling, delivered, cleaned, or to
\* failed from a state before delivered, with one exception: when the layout
\* throws it moves back from laying_out to falling_back (once). A job is
\* never failed after delivered and never both, and every job started reaches
\* delivered or failed.
C16_StatusProgress ==
  /\ [][/\ \/ Rank[Status'] >= Rank[Status]
            \/ /\ Status = "laying_out"
               /\ Status' = "falling_back"
               /\ ~LayoutFailed
               /\ LayoutFailed'
         /\ StatusKept]_vars
  /\ [](Status \notin {"unanswered", "delivered_and_failed"})
  /\ <>Terminal

\* the layout threw, the fallback document was delivered and the deferred
\* cleanup has run
C16_Witness ==
  /\ LayoutFailed
  /\ Status = "cleaned"
  /\ DeliveredFallback
  /\ ~InputPresent
  /\ ~OutputPresent

\* ------------------------------------------------------------------ C22
PageChecked == pc = "drawText"
Boundary == margin + lineHeight
FreshPage ==
  /\ pdfBuffer.pages = 2
  /\ pdfBuffer.yPosition = pageHeight - margin
  /\ pdfBuffer.lineCount = 0

LaidOut == pdfBuffer.kind \in {"building", "text"}
LinesOnPage(p) == Cardinality({ k \in DOMAIN pdfBuffer.placed : pdfBuffer.placed[k].page = p })
PlacedLines == Len(pdfBuffer.placed)
CeilDiv(a, b) == (a + b - 1) \div b
Max(a, b) == IF a > b THEN a ELSE b

\* C27: in every document createPdfFromText builds and returns, no page holds
\* more than 40 placed lines, every page other than the first holds at least
\* one placed line, the page count is max(1, ceil(placedLines / 40)), and the
\* vertical-cursor condition never triggers a page break: the cursor is never
\* below margin + lineHeight, every line is placed at 791.89 minus 14 times
\* the number of lines already on its page, and every page that was left
\* holds exactly 40 lines.
C27_PageInvariants ==
  LaidOut =>
    /\ \A p \in 1..pdfBuffer.pages : LinesOnPage(p) <= linesPerPage
    /\ \A p \in 2..pdfBuffer.pages : LinesOnPage(p) >= 1
    /\ pdfBuffer.pages = Max(1, CeilDiv(PlacedLines, linesPerPage))
    /\ pdfBuffer.yPosition >= margin + lineHeight
    /\ pdfBuffer.yPosition = pageHeight - margin - pdfBuffer.lineCount * lineHeight
    /\ \A p \in 1..(pdfBuffer.pages - 1) : LinesOnPage(p) = linesPerPage
    /\ \A k \in DOMAIN pdfBuffer.placed :
         /\ pdfBuffer.placed[k].page = CeilDiv(k, linesPerPage)
         /\ pdfBuffer.placed[k].y =
              pageHeight - margin - ((k - 1) % linesPerPage) * lineHeight

\* a returned document of exactly 80 placed lines, some of them segments of a
\* wrapped line: two full pages and no third one
C27_Witness ==
  /\ Saved
  /\ PlacedLines = 2 * linesPerPage
  /\ pdfBuffer.pages = 2
  /\ LinesOnPage(2) = linesPerPage
  /\ \E k \in DOMAIN pdfBuffer.placed : Cardinality(PlacedIndexes(pdfBuffer.placed[k].from)) > 1

\* ------------------------------------------------------------------ C28
\* the placement m comes before the placement n on the pages
Before(m, n) ==
  \/ pdfBuffer.placed[m].page < pdfBuffer.placed[n].page
  \/ /\ pdfBuffer.placed[m].page = pdfBuffer.placed[n].page
     /\ pdfBuffer.placed[m].y > pdfBuffer.placed[n].y

\* C28: wrapping loses and reorders nothing: for every input line, the chunks
\* placed for it are consecutive placements and, concatenated in placement
\* order, equal the line; every chunk of a wrapped line has between 1 and 80
\* characters and a line that is not wrapped is placed whole; and placements
\* follow the input order, a later placement lying on a later page or lower on
\* the same page.
C28_WrapLossless ==
  Saved =>
    /\ \A i \in DOMAIN pdfBuffer.lines :
         LET line == pdfBuffer.lines[i]
             chunks == PlacedFrom(i)
         IN
         /\ PlacedIndexes(i) # {}
         /\ \A m \in PlacedIndexes(i), n \in PlacedIndexes(i) : m..n \subseteq PlacedIndexes(i)
         /\ Concat(chunks) = line
         /\ Len(chunks) > 1 =>
              \A j \in DOMAIN chunks : Len(chunks[j].text) \in 1..maxCharsPerLine
         /\ Len(line) <= maxCharsPerLine => Len(chunks) = 1
    /\ \A m \in DOMAIN pdfBuffer.placed, n \in DOMAIN pdfBuffer.placed :
         m < n =>
           /\ pdfBuffer.placed[m].from <= pdfBuffer.placed[n].from
           /\ Before(m, n)

\* a line wrapped into three chunks, the first one the last line of page 1,
\* the other two on page 2
C28_Witness ==
  /\ Saved
  /\ \E i \in DOMAIN pdfBuffer.lines :
       /\ Len(PlacedFrom(i)) = 3
       /\ PlacedFrom(i)[1].page = 1
       /\ PlacedFrom(i)[2].page = 2
       /\ Len(PlacedFrom(i)[3].text) = 1
       /\ i > 1

\* ------------------------------------------------------------------ C29
RejectionCodes == {"INVALID_FILE_TYPE", "INVALID_MIME_TYPE", "FILE_TOO_LARGE", "EMPTY_FILE"}

\* the checks of validateFile, decided by hand from the request
ChecksPass ==
  /\ IsFileUpload
  /\ request.originalname \in AllowedNames
  /\ request.mimetype \in AllowedMimes
  /\ request.body.size <= MaxFileSize
  /\ request.body.size > 0

\* C29: whenever validateFile rejects an upload with a 400 response for a
\* disallowed extension, a disallowed MIME type, an oversize or an empty file,
\* the stored input file has been deleted, nothing else has, and next() is not
\* called; when all checks pass it calls next() once, sends nothing and leaves
\* the incoming directory as it was; and it rejects exactly the uploads that
\* fail a check.
C29_ValidateFrame ==
  [][pc = "validateFile" =>
       LET rejected == /\ Len(responses') = Len(responses) + 1
                       /\ responses'[Len(responses')].status = 400
                       /\ responses'[Len(responses')].body.error \in RejectionCodes
           passed == pc' = "convertWordToPdf"
       IN
       /\ rejected =>
            /\ reqFile # <<>>
            /\ existsSync(uploads, reqFile[1].path)
            /\ ~existsSync(uploads', reqFile[1].path)
            /\ uploads' = { f \in uploads : f.path # reqFile[1].path }
            /\ log'.nextBy = log.nextBy
            /\ pc' = "done"
       /\ passed =>
            /\ responses' = responses
            /\ uploads' = uploads
            /\ existsSync(uploads', reqFile[1].path)
            /\ log'.nextBy = log.nextBy \cup {"validateFile"}
            /\ "validateFile" \notin log.nextBy
       /\ passed <=> ChecksPass
       /\ (IsFileUpload /\ ~ChecksPass) => rejected]_vars

\* an upload with an allowed name and a disallowed declared type has been
\* rejected and its stored file is gone
C29_Witness ==
  /\ Finished
  /\ IsFileUpload
  /\ request.originalname \in AllowedNames
  /\ request.body.size = 1024
  /\ Len(responses) = 1
  /\ responses[1].by = "validateFile"
  /\ responses[1].status = 400
  /\ responses[1].body.error = "INVALID_MIME_TYPE"
  /\ uploads = {}
  /\ log.deletions = << Deleted(reqFile[1].path, "validateFile") >>

\* ------------------------------------------------------------------ C25
IsDocUpload == IsFileUpload /\ toLowerCase(extname(request.originalname)) = DocExt
\* the first bytes of the OLE2 compound file a .doc document is stored in
LegacyHeader == <<208, 207, 17, 224>>
LooksLikeLegacyDocument ==
  Len(request.body.bytes) >= 4 /\ SubSeq(request.body.bytes, 1, 4) = LegacyHeader

\* C25 as stated: the bytes of a .doc upload are checked before extraction,
\* and extraction is not attempted for bytes that do not look like a legacy
\* document.
C25_Original ==
  (IsDocUpload /\ log.convertInvoked) =>
    /\ log.signature # "unchecked"
    /\ ~LooksLikeLegacyDocument => log.extractCalls = 0

\* C25 (amended): for a .doc upload no byte check is made: whatever its bytes
\* are, the handler attempts the extraction, exactly once and before anything
\* else, and the fallback generator is called only after the extraction threw,
\* returned empty or whitespace-only text, or the layout threw.
C25_DocAlwaysExtracts ==
  (IsDocUpload /\ log.convertInvoked) =>
    /\ log.signature = "unchecked"
    /\ log.extractCalls = 1
    /\ "signature" \notin log.soft
    /\ log.fallbackCalls > 0 =>
         /\ log.extract \in {"threw", "value"}
         /\ log.soft \cap {"extraction_exception", "empty_text", "layout_exception"} # {}

\* a .doc upload whose bytes are FF FF FF FF .. was extracted and answered
\* with the text document
C25_Witness ==
  /\ Finished
  /\ IsDocUpload
  /\ ~LooksLikeLegacyDocument
  /\ request.body.bytes = <<255, 255, 255, 255, 0>>
  /\ log.extract = "value"
  /\ log.fallbackCalls = 0
  /\ Len(responses) = 1
  /\ responses[1].kind = "pdf"
  /\ responses[1].buffer.kind = "text"

\* ------------------------------------------------------------------ C26
\* C26: on every path through upload middleware, validation middleware,
\* conversion handler and download callback at most one response is sent: a
\* JSON error body and a PDF stream are never both sent for the same request,
\* and once the headers have been sent no further response is added.
C26_AtMostOneResponse ==
  /\ [](/\ Len(responses) <= 1
        /\ ~(JsonResponses # {} /\ PdfResponses # {})
        /\ responses # <<>> => headersSent)
  /\ [][headersSent => responses' = responses]_vars

\* the transfer failed after the headers were sent: the broken PDF stream is
\* the only response, no JSON error follows it
C26_Witness ==
  /\ Finished
  /\ log.download = "error_after_headers"
  /\ headersSent
  /\ Len(responses) = 1
  /\ responses[1].kind = "pdf"
  /\ ~responses[1].complete

\* ------------------------------------------------------------------ C23
\* a step of the periodic sweep
SweepStep == log'.swept # log.swept

\* C23: after one sweep pass over a storage directory, the files that were
\* stale at the start of the pass have been deleted, a failure at one file
\* leaving at most that file behind: no second stale file of the directory
\* survives the pass.
C23_SweepPassComplete ==
  [][SweepStep =>
       /\ Cardinality(StaleFiles(uploads) \cap uploads') <= 1
       /\ Cardinality(StaleFiles(converted) \cap converted') <= 1]_vars

\* ------------------------------------------------------------------ C24
Without(dir, filePath) == { f \in dir : f.path # filePath }
TimerFired == timers' # timers /\ timers' \subseteq timers
FiredTimer == CHOOSE t \in timers : t \notin timers'
CatchRan ==
  /\ pc # "done"
  /\ pc' = "done"
  /\ Len(responses') = Len(responses) + 1
  /\ responses'[Len(responses')].by = "convertWordToPdf"
  /\ responses'[Len(responses')].status = 500
SweptPaths == { s.path : s \in log.swept }

\* C24: per-file deletion is best-effort and idempotent: the deferred cleanup
\* and the immediate cleanup of the catch block leave the job's input and
\* output absent and every other file as it was, whether or not the sweep or
\* an earlier deletion has already removed one of them; they never answer the
\* request with a failure of their own; and cleanupFile applied again, to a
\* missing path or to the null path, changes nothing.
C24_CleanupIdempotent ==
  /\ [][/\ TimerFired =>
             /\ uploads' = Without(uploads, FiredTimer.input)
             /\ converted' = Without(converted, FiredTimer.output)
             /\ responses' = responses
             /\ pc' = pc
        /\ CatchRan =>
             /\ uploads' = Without(uploads, inputFilePath)
             /\ Without(converted', outputFilePath) = Without(converted, outputFilePath)
             /\ ~existsSync(converted', outputFilePath)]_vars
  /\ [](\A p \in {inputFilePath, outputFilePath, NullPath} :
          /\ cleanupFile(cleanupFile(uploads, "uploads", p), "uploads", p)
               = cleanupFile(uploads, "uploads", p)
          /\ cleanupFile(cleanupFile(converted, "converted", p), "converted", p)
               = cleanupFile(converted, "converted", p)
          /\ ~existsSync(uploads, p) => cleanupFile(uploads, "uploads", p) = uploads
          /\ ~existsSync(converted, p) => cleanupFile(converted, "converted", p) = converted
          /\ cleanupFile(uploads, "uploads", p) \in {uploads, Without(uploads, p)}
          /\ cleanupFile(converted, "converted", p) \in {converted, Without(converted, p)})

\* the sweep removed the job's stored input while the job was waiting, the
\* job then failed and the catch block ran cleanupFile on the missing input:
\* nothing was deleted by it and the other upload is still there
C24_Witness ==
  /\ Finished
  /\ Len(responses) = 1
  /\ responses[1].by = "convertWordToPdf"
  /\ responses[1].status = 500
  /\ inputFilePath \in SweptPaths
  /\ \A i \in DOMAIN log.deletions : log.deletions[i].path # inputFilePath
  /\ ~existsSync(uploads, inputFilePath)
  /\ uploads # {}

\* ------------------------------------------------------------------ C30
\* C30: in the Converter component a selected file stays selected until the
\* user replaces or removes it or a conversion of that same file has
\* succeeded: the reset timer of a conversion clears the selection only when
\* the selected file is the one that was converted; and isConverting is false
\* whenever no conversion is in progress.
C30_SelectionKept ==
  /\ [][(ui.selectedFile # NoFile /\ ui'.selectedFile # ui.selectedFile) =>
          \/ ui'.event \in {"handleFileChange", "handleDrop", "resetFile"}
          \/ /\ ui'.event = "resetTimeout"
             /\ \E t \in ui.resetTimers \ ui'.resetTimers : t.file = ui.selectedFile]_vars
  /\ [](ui.isConverting <=> ui.pending # <<>>)

\* ------------------------------------------------------------------ C21
AllJobs == {RunningJob} \cup { suspended[i] : i \in DOMAIN suspended }
InFlight(job) ==
  job.pc \in {"extractRawText", "createPdfFromText", "createFallbackPdf", "writeFileSync",
              "download"}

\* the stored names of two different requests differ
NamesDistinct ==
  \A i \in DOMAIN suspended :
    /\ (reqFile # <<>> /\ suspended[i].reqFile # <<>>)
         => reqFile[1].path # suspended[i].reqFile[1].path
    /\ (outputFilePath # NullPath /\ suspended[i].outputFilePath # NullPath)
         => outputFilePath # suspended[i].outputFilePath

\* the stored input of a request under way is on disk with the bytes that
\* request uploaded
OwnInputKept(job) ==
  InFlight(job) =>
    /\ existsSync(uploads, job.inputFilePath)
    /\ FileAt(uploads, job.inputFilePath).bytes = job.request.body.bytes

\* the output a request is about to send is on disk as that request wrote it
OwnOutputKept(job) ==
  job.pc = "download" =>
    /\ existsSync(converted, job.outputFilePath)
    /\ FileAt(converted, job.outputFilePath).buffer =
         (IF job.log.write = "empty" THEN NoBuffer ELSE job.pdfBuffer)

\* C21: with requests running concurrently, in any interleaving of their
\* steps and cleanup timers, the generated names of distinct requests are
\* distinct and no request overwrites or deletes another one's files: the
\* input of a request under way and the output it is about to send are on
\* disk as that request stored them.
C21_JobsIsolated ==
  /\ NamesDistinct
  /\ \A job \in AllJobs : OwnInputKept(job) /\ OwnOutputKept(job)

====
